---- MODULE Spec2Model ----
(***************************************************************************)
(* Model of the azure-boards-ai server core: the in-memory session store   *)
(* (SessionManager), the resilient Azure DevOps client (fetchWithRetry)    *)
(* and the execute stage that creates work items in batches.               *)
(***************************************************************************)
EXTENDS Integers, Sequences, FiniteSets, TLC

(***************************************************************************)
(* Bounds of the model.                                                    *)
(***************************************************************************)
MaxSessions == 2
MaxCreateCalls == 2
MaxUpdates == 1
MaxRetriesCfg == 3
MaxTasks == 3
MaxBatchSize == 2
MaxExecRetries == 1
MaxChunks == 2
MaxBatchRetries == 1
MaxTokenCalls == 2
MaxTime == 2
MaxInvalidations == 1
MaxChildren == 2
MaxDeletes == 1
MaxChats == 2
MaxStreamChunks == 2

(***************************************************************************)
(* Values.                                                                 *)
(***************************************************************************)
NoSession == 0
NoSpec == <<>>
NoSpecifyContext == [present |-> FALSE]
NoPlan == [present |-> FALSE, subtasks |-> <<>>]
NoResult == [present |-> FALSE, success |-> FALSE, dryRun |-> FALSE, totalTasks |-> 0,
             createdTasks |-> <<>>, failedTasks |-> <<>>]

Keys == {<<"https://dev.azure.com/org", 1>>, <<"https://dev.azure.com/org", 2>>}
Stages == {"idle", "specify", "plan"}
CreateCallIds == 1..MaxCreateCalls

VARIABLES
  sessions,       \* SessionManager.sessions: session id -> reference of the session object
  workItemIndex,  \* SessionManager.workItemIndex: key -> session id
  heap,           \* the session objects, by reference (a sequence; a reference is an index)
  ctxHeap,        \* the context objects (session.context), by reference
  transcripts,    \* the transcript arrays (session.transcript), by reference
  nextId,         \* the number of ids nanoid() has produced
  azureDevOps,    \* whether the SessionManager was constructed with a client
  creates,        \* the create() calls: position and locals of each
  lastReturn,     \* history: key -> id returned by the latest completed create, 0 after a
                  \* delete for the key or of that session
  updates,        \* history: the number of update() calls made
  deletes,        \* history: the number of delete() calls made and the id of the latest
  retryConfig,    \* AzureDevOpsService.retryConfig
  authMode,       \* AuthService.config: "pat" or "sp"
  cachedToken,    \* AuthService.cachedToken
  invalidations,  \* history: the number of invalidateToken() calls
  calls,          \* the fetchWithRetry calls: position and locals of each
  backend,        \* the backend: call id -> number of records its POSTs created
  reqLog,         \* history: call id -> the responses the call received
  sleepLog,       \* history: call id -> the sleeps (ms) the call performed
  execs,          \* the execute() calls: position and locals of each
  batchFetch,     \* the getWorkItemsBatch() call: position and locals
  now,            \* the clock (new Date(), Date.now()), in minutes
  tokenCalls,     \* the getAccessToken() calls: position and locals of each
  invalidated,    \* history: what happened since the latest invalidateToken()
  stageCall,      \* the specify() or plan() call: position and locals
  updateTool,     \* the updateWorkItem() tool call: position and locals
  chatSessions,   \* routes/chat.ts: the sessions map of the SessionManager of the chat routes
  chats           \* the chat turns: position and locals of each

storeVars == <<sessions, workItemIndex, heap, ctxHeap, transcripts, nextId, azureDevOps,
               creates, lastReturn, updates, deletes>>
clientVars == <<retryConfig, authMode, cachedToken, invalidations, calls, backend>>
logVars == <<reqLog, sleepLog>>
execVars == <<execs>>
batchVars == <<batchFetch>>
authVars == <<now, tokenCalls, invalidated>>
stageVars == <<stageCall>>
updVars == <<updateTool>>
chatVars == <<chatSessions, chats>>
toolVars == <<batchVars, authVars, stageVars, updVars, chatVars>>
vars == <<sessions, workItemIndex, heap, ctxHeap, nextId, azureDevOps, creates,
          lastReturn, updates, retryConfig, authMode, cachedToken, invalidations,
          calls, backend, reqLog, sleepLog, execs, batchFetch, now, tokenCalls,
          invalidated, stageCall, updateTool, transcripts, deletes, chatSessions, chats>>

(***************************************************************************)
(* Helpers on finite maps (functions whose domain grows and shrinks).      *)
(***************************************************************************)
MapSet(m, k, v) == [x \in (DOMAIN m) \cup {k} |-> IF x = k THEN v ELSE m[x]]
MapDelete(m, k) == [x \in (DOMAIN m) \ {k} |-> m[x]]
MapGet(m, k, dflt) == IF k \in DOMAIN m THEN m[k] ELSE dflt
EmptyMap == [x \in {} |-> 0]

ChatIds == 1..MaxChats
IdleChat == [pc |-> "idle", via |-> "none", sessionId |-> NoSession, session |-> 0,
             userMessage |-> <<>>, assistantMessage |-> <<>>, streamed |-> <<>>]

(***************************************************************************)
(* SessionManager                                                          *)
(***************************************************************************)
IdleCreate == [pc |-> "idle", key |-> <<"", 0>>, loads |-> 0, result |-> NoSession,
               via |-> "none"]

\* the session object the store holds for id, as get(id) returns it
StoredSession(id) == heap[sessions[id]]

\* session-manager.ts 18-25: the session create() finds for key, NoSession if none
FindExisting_NoLookup(key) == NoSession

FindExisting(key) ==
  LET existingId == MapGet(workItemIndex, key, NoSession)
  IN  IF existingId # NoSession /\ existingId \in DOMAIN sessions
        THEN existingId
        ELSE NoSession

\* get(id) and getByWorkItem(workItemId, organizationUrl): lines 62-76, the
\* reference of the session object, or undefined
undefined == 0

get(id) == IF id \in DOMAIN sessions THEN sessions[id] ELSE undefined

getByWorkItem(key) ==
  LET sessionId == MapGet(workItemIndex, key, NoSession)
  IN  IF sessionId = NoSession THEN undefined ELSE get(sessionId)

\* the create() calls suspended at the context load
Loading == {p \in CreateCallIds : creates[p].pc = "loading"}

\* create(): lines 15-38, up to the await of the three context loads; the calls
\* are numbered in the order in which they are made
CreateBegin(p, key) ==
  /\ creates[p].pc = "idle"
  /\ \A q \in CreateCallIds : q < p => creates[q].pc # "idle"
  /\ LET existing == FindExisting(key)
     IN  IF existing # NoSession
           THEN /\ creates' = [creates EXCEPT ![p] =
                      [pc |-> "done", key |-> key, loads |-> 0, result |-> existing,
                       via |-> "existing"]]
                /\ lastReturn' = [lastReturn EXCEPT ![key] = existing]
           ELSE IF ~azureDevOps
             THEN /\ creates' = [creates EXCEPT ![p] =
                        [pc |-> "failed", key |-> key, loads |-> 0,
                         result |-> NoSession, via |-> "none"]]
                  /\ UNCHANGED lastReturn
             ELSE /\ nextId + Cardinality(Loading) < MaxSessions
                  /\ creates' = [creates EXCEPT ![p] =
                        [pc |-> "loading", key |-> key,
                         loads |-> 0,
                         result |-> NoSession, via |-> "none"]]
                  /\ UNCHANGED lastReturn
  /\ UNCHANGED <<sessions, workItemIndex, heap, ctxHeap, transcripts, nextId, azureDevOps,
                 updates, deletes>>
  /\ UNCHANGED <<clientVars, logVars, execVars, toolVars>>

\* create(): one more of getWorkItem / getRelatedWorkItems / getChildWorkItems
\* settles, loads counting the resolved ones; Promise.all rejects on the first
\* rejection (lines 34-38)
loadSettled_AllSettled(call, ok) == [call EXCEPT !.loads = @ + 1]

loadSettled(call, ok) ==
  IF ok THEN [call EXCEPT !.loads = @ + 1]
        ELSE [call EXCEPT !.pc = "failed", !.loads = 0]

CreateLoad(p, ok) ==
  /\ creates[p].pc = "loading"
  /\ creates[p].loads < 3
  /\ creates' = [creates EXCEPT ![p] = loadSettled(@, ok)]
  /\ UNCHANGED <<sessions, workItemIndex, heap, ctxHeap, transcripts, nextId, azureDevOps,
                 lastReturn, updates, deletes>>
  /\ UNCHANGED <<clientVars, logVars, execVars, toolVars>>

\* create(): lines 40-59, the three loads have resolved
CreateRegister(p) ==
  /\ creates[p].pc = "loading"
  /\ creates[p].loads = 3
  /\ LET id == nextId + 1
         key == creates[p].key
     IN  /\ nextId' = id
         /\ ctxHeap' = Append(ctxHeap, [specification |-> NoSpec, executionPlan |-> NoPlan,
                                       lastExecution |-> NoResult,
                                       specifyContext |-> NoSpecifyContext])
         /\ transcripts' = Append(transcripts, <<>>)
         /\ heap' = Append(heap, [id |-> id, key |-> key, state |-> "idle",
                                  transcript |-> Len(transcripts) + 1,
                                  context |-> Len(ctxHeap) + 1])
         /\ sessions' = MapSet(sessions, id, Len(heap) + 1)
         /\ workItemIndex' = MapSet(workItemIndex, key, id)
         /\ creates' = [creates EXCEPT ![p] =
               [pc |-> "done", key |-> key, loads |-> 0, result |-> id, via |-> "new"]]
         /\ lastReturn' = [lastReturn EXCEPT ![key] = id]
  /\ UNCHANGED <<azureDevOps, updates, deletes>>
  /\ UNCHANGED <<clientVars, logVars, execVars, toolVars>>

\* a running execute(), specify() or plan() holds the reference of the session
\* object
Referenced(ref) ==
  \/ \E e \in DOMAIN execs :
       execs[e].pc \notin {"idle", "returned", "thrown"} /\ execs[e].session = ref
  \/ stageCall.pc \in {"item", "related", "children"} /\ stageCall.session = ref

\* the partial sessions update() is given: a stage, or a workItemId
SessionUpdates ==
  {[field |-> "state", value |-> st] : st \in Stages}
  \cup {[field |-> "workItemId", value |-> k[2]] : k \in Keys}

\* {...session, ...updates}: lines 91-95
merged(session, upd) ==
  IF upd.field = "state"
    THEN [session EXCEPT !.state = upd.value]
    ELSE [session EXCEPT !.key = <<session.key[1], upd.value>>]

\* update(id, updates): lines 82-99, a new object replaces the stored one; the
\* new object takes the place of the old one when nothing else refers to that
Update(id, upd) ==
  /\ updates < MaxUpdates
  /\ id \in DOMAIN sessions
  /\ IF Referenced(sessions[id])
       THEN /\ heap' = Append(heap, merged(StoredSession(id), upd))
            /\ sessions' = [sessions EXCEPT ![id] = Len(heap) + 1]
       ELSE /\ heap' = [heap EXCEPT ![sessions[id]] = merged(@, upd)]
            /\ UNCHANGED sessions
  /\ updates' = updates + 1
  /\ UNCHANGED <<workItemIndex, ctxHeap, transcripts, nextId, azureDevOps, creates, lastReturn,
                 deletes>>
  /\ UNCHANGED <<clientVars, logVars, execVars, toolVars>>

NoDeletes == [count |-> 0, id |-> NoSession]

\* delete(id), line 107: the sessions map after the removal of id
sessionsAfterDelete_Keep(id) == sessions

sessionsAfterDelete(id) == MapDelete(sessions, id)

\* delete(id): lines 101-108; nothing is done for an id the store does not hold
Delete(id) ==
  /\ deletes.count < MaxDeletes
  /\ deletes' = [count |-> deletes.count + 1, id |-> id]
  /\ IF id \in DOMAIN sessions
       THEN LET key == StoredSession(id).key
            IN  /\ workItemIndex' = MapDelete(workItemIndex, key)
                /\ sessions' = sessionsAfterDelete(id)
                /\ lastReturn' = [k \in Keys |->
                                    IF k = key \/ lastReturn[k] = id THEN NoSession
                                                                     ELSE lastReturn[k]]
       ELSE UNCHANGED <<sessions, workItemIndex, lastReturn>>
  /\ UNCHANGED <<heap, ctxHeap, transcripts, nextId, azureDevOps, creates, updates>>
  /\ UNCHANGED <<clientVars, logVars, execVars, toolVars>>

(***************************************************************************)
(* AzureDevOpsService: the retry wrapper                                   *)
(***************************************************************************)
DefaultMaxRetries == 3
DefaultInitialDelayMs == 1000
DefaultMaxDelayMs == 30000
DefaultBackoffMultiplier == 2
DefaultRetryAfterSeconds == 60

DEFAULT_RETRY_CONFIG ==
  [maxRetries |-> DefaultMaxRetries, initialDelayMs |-> DefaultInitialDelayMs,
   maxDelayMs |-> DefaultMaxDelayMs, backoffMultiplier |-> DefaultBackoffMultiplier]

\* the retry configurations the constructor is given
RetryConfigs(maxR) ==
  {[DEFAULT_RETRY_CONFIG EXCEPT !.maxRetries = m] : m \in 0..maxR}
  \cup {[DEFAULT_RETRY_CONFIG EXCEPT !.maxDelayMs = 3000]}

ClientCallIds == {<<0, 1>>}
ExecIds == {1, 2}
TaskCallIds == {<<e, i>> : e \in ExecIds, i \in 0..(MaxTasks - 1)}
BatchCallIds == {<<-1, i>> : i \in 0..(MaxChunks - 1)}
UpdateCallId == <<-2, 0>>
CallIds == ClientCallIds \cup TaskCallIds \cup BatchCallIds \cup {UpdateCallId}

Digits == <<"0", "1", "2", "3", "4", "5", "6", "7", "8", "9">>
IsDigit(ch) == \E d \in 1..10 : Digits[d] = ch
DigitValue(ch) == (CHOOSE d \in 1..10 : Digits[d] = ch) - 1

\* the Retry-After header values a response carries: absent, or a text
AbsentHeader == [present |-> FALSE, text |-> <<>>]
HeaderTexts == {<<"2">>, <<"1", "5">>, <<"x">>, <<"3", "x">>}
Headers == {AbsentHeader} \cup {[present |-> TRUE, text |-> t] : t \in HeaderTexts}

\* the responses of the backend to one request; status 0 stands for a request that
\* fails without a response (fetch throws); applied: the backend carried out the
\* request before it answered; hasId: the body of a 2xx carries the id of the record
Responses(method) ==
  {[status |-> 200, hdr |-> AbsentHeader, applied |-> (method = "POST"), hasId |-> b] :
      b \in IF method = "POST" THEN BOOLEAN ELSE {TRUE}}
  \cup {[status |-> 429, hdr |-> h, applied |-> FALSE, hasId |-> FALSE] : h \in Headers}
  \cup {[status |-> s, hdr |-> AbsentHeader, applied |-> FALSE, hasId |-> FALSE] :
          s \in {401, 404}}
  \cup {[status |-> 500, hdr |-> AbsentHeader, applied |-> a, hasId |-> FALSE] :
          a \in IF method = "POST" THEN BOOLEAN ELSE {FALSE}}
  \cup {[status |-> 0, hdr |-> AbsentHeader, applied |-> FALSE, hasId |-> FALSE]}

RECURSIVE Pow(_, _)
Pow(b, e) == IF e = 0 THEN 1 ELSE b * Pow(b, e - 1)

Min(a, b) == IF a < b THEN a ELSE b

\* part_012 368-373
calculateBackoffDelay_NoCap(cfg, attempt) ==
  cfg.initialDelayMs * Pow(cfg.backoffMultiplier, attempt)

calculateBackoffDelay(cfg, attempt) ==
  Min(cfg.initialDelayMs * Pow(cfg.backoffMultiplier, attempt), cfg.maxDelayMs)

\* parseInt on a header text: the value of the longest prefix of digits, NaN if none
RECURSIVE DigitPrefixValue(_, _)
DigitPrefixValue(text, acc) ==
  IF text = <<>> \/ ~IsDigit(Head(text))
    THEN acc
    ELSE DigitPrefixValue(Tail(text), 10 * acc + DigitValue(Head(text)))

parseInt(text) ==
  IF text = <<>> \/ ~IsDigit(Head(text))
    THEN [nan |-> TRUE, val |-> 0]
    ELSE [nan |-> FALSE, val |-> DigitPrefixValue(text, 0)]

\* part_012 378-390
getRetryAfterSeconds(hdr) ==
  IF hdr.present /\ hdr.text # <<>> /\ ~parseInt(hdr.text).nan
    THEN parseInt(hdr.text).val
    ELSE DefaultRetryAfterSeconds

Outcome(act, ms, inval, err, status, retryAfter) ==
  [act |-> act, sleep |-> ms, invalidate |-> inval, err |-> err, status |-> status,
   retryAfter |-> retryAfter]

\* part_012 345-362: the catch clause for an error that is not an AzureDevOpsError
catchClause(cfg, attempt) ==
  IF attempt < cfg.maxRetries
    THEN Outcome("retry", calculateBackoffDelay(cfg, attempt), FALSE, "none", 0, 0)
    ELSE Outcome("throw", 0, FALSE, "ConnectError", 0, 0)

\* part_012 320-344: the 5xx branch followed by the non-retryable error
serverErrorOrFail_OffByOne(cfg, attempt, resp, inval) ==
  IF resp.status >= 500 /\ attempt <= cfg.maxRetries
    THEN Outcome("retry", calculateBackoffDelay(cfg, attempt), inval, "none", 0, 0)
    ELSE Outcome("throw", 0, inval, "AzureDevOpsError", resp.status, 0)

serverErrorOrFail(cfg, attempt, resp, inval) ==
  IF resp.status >= 500 /\ attempt < cfg.maxRetries
    THEN Outcome("retry", calculateBackoffDelay(cfg, attempt), inval, "none", 0, 0)
    ELSE Outcome("throw", 0, inval, "AzureDevOpsError", resp.status, 0)

\* part_012 295-307: the 429 branch
rateLimited_Backoff(cfg, attempt, resp) ==
  IF attempt < cfg.maxRetries
    THEN Outcome("retry", calculateBackoffDelay(cfg, attempt), FALSE, "none", 0, 0)
    ELSE Outcome("throw", 0, FALSE, "RateLimitError", 429, getRetryAfterSeconds(resp.hdr))

rateLimited(cfg, attempt, resp) ==
  LET retryAfter == getRetryAfterSeconds(resp.hdr)
  IN  IF attempt < cfg.maxRetries
        THEN Outcome("retry", retryAfter * 1000, FALSE, "none", 0, 0)
        ELSE Outcome("throw", 0, FALSE, "RateLimitError", 429, retryAfter)

\* part_012 309-318: the 401 branch
unauthorized_NoInvalidate(cfg, attempt, resp) ==
  IF attempt < cfg.maxRetries
    THEN Outcome("retry", cfg.initialDelayMs, FALSE, "none", 0, 0)
    ELSE serverErrorOrFail(cfg, attempt, resp, FALSE)

unauthorized_AsRateLimit(cfg, attempt, resp) ==
  IF attempt < cfg.maxRetries
    THEN Outcome("retry", cfg.initialDelayMs, TRUE, "none", 0, 0)
    ELSE Outcome("throw", 0, TRUE, "RateLimitError", 429, getRetryAfterSeconds(resp.hdr))

unauthorized(cfg, attempt, resp) ==
  IF attempt < cfg.maxRetries
    THEN Outcome("retry", cfg.initialDelayMs, TRUE, "none", 0, 0)
    ELSE serverErrorOrFail(cfg, attempt, resp, TRUE)

\* part_012 278-362: what one attempt of fetchWithRetry does with the response
fetchWithRetry_RetryAll(cfg, attempt, resp) ==
  IF resp.status = 0 THEN catchClause(cfg, attempt)
  ELSE IF resp.status >= 200 /\ resp.status <= 299
    THEN Outcome("return", 0, FALSE, "none", resp.status, 0)
  ELSE IF resp.status = 429 THEN rateLimited(cfg, attempt, resp)
  ELSE IF resp.status = 401 THEN unauthorized(cfg, attempt, resp)
  ELSE IF attempt < cfg.maxRetries
    THEN Outcome("retry", calculateBackoffDelay(cfg, attempt), FALSE, "none", 0, 0)
    ELSE Outcome("throw", 0, FALSE, "AzureDevOpsError", resp.status, 0)

fetchWithRetry(cfg, attempt, resp) ==
  IF resp.status = 0 THEN catchClause(cfg, attempt)
  ELSE IF resp.status >= 200 /\ resp.status <= 299
    THEN Outcome("return", 0, FALSE, "none", resp.status, 0)
  ELSE IF resp.status = 429 THEN rateLimited(cfg, attempt, resp)
  ELSE IF resp.status = 401 THEN unauthorized(cfg, attempt, resp)
  ELSE serverErrorOrFail(cfg, attempt, resp, FALSE)

NoCall == [pc |-> "none", method |-> "GET", attempt |-> 0, requests |-> 0, err |-> "none",
           status |-> 0, retryAfter |-> 0, hasId |-> FALSE]

NewCall(method) == [NoCall EXCEPT !.pc = "auth", !.method = method]

\* the position of call c after the outcome o of its current attempt
CallAfter(call, o, hasId) ==
  CASE o.act = "return" -> [call EXCEPT !.pc = "ok", !.status = o.status, !.hasId = hasId]
    [] o.act = "retry" -> [call EXCEPT !.pc = "sleep"]
    [] o.act = "throw" -> [call EXCEPT !.pc = "err", !.err = o.err, !.status = o.status,
                                       !.retryAfter = o.retryAfter]

BufferMinutes == 5
LongExpiresIn == 60

NoToken == [present |-> FALSE, expiresAt |-> 0]

\* part_013 146-153: the token of an exchange that completes now
fetchedToken(expiresIn) == [present |-> TRUE, expiresAt |-> now + expiresIn]

\* part_013 101-107
isTokenValid_NoBuffer(token) == now < token.expiresAt

isTokenValid(token) == now < token.expiresAt - BufferMinutes

\* part_013 96-99: what invalidateToken() leaves in the cache
invalidateToken_Keep(token) == token

invalidateToken(token) == NoToken

\* part_013 55-71, 76-91: getAuthHeaders() served from the PAT or the cached token
AuthHeadersReady == authMode = "pat" \/ (cachedToken.present /\ isTokenValid(cachedToken))

\* part_012 279-288: the attempt obtains the auth headers and sends the request;
\* tokenOk: the outcome of the token exchange when one is needed
FetchSend(c, tokenOk) ==
  /\ calls[c].pc = "auth"
  /\ AuthHeadersReady => tokenOk
  /\ IF tokenOk
       THEN /\ calls' = [calls EXCEPT ![c].pc = "sent", ![c].requests = @ + 1]
            /\ cachedToken' = IF AuthHeadersReady THEN cachedToken
                                                    ELSE fetchedToken(LongExpiresIn)
            /\ UNCHANGED sleepLog
       ELSE LET o == catchClause(retryConfig, calls[c].attempt)
            IN  /\ calls' = [calls EXCEPT ![c] = CallAfter(@, o, FALSE)]
                /\ sleepLog' = IF o.act = "retry" /\ c \in DOMAIN sleepLog
                                 THEN [sleepLog EXCEPT ![c] = Append(@, o.sleep)]
                                 ELSE sleepLog
                /\ UNCHANGED cachedToken
  /\ UNCHANGED <<retryConfig, authMode, invalidations, backend, reqLog>>

\* part_012 290-362: the response (or the failure) of the request arrives
FetchRespond(c, resp) ==
  /\ calls[c].pc = "sent"
  /\ resp \in Responses(calls[c].method)
  /\ LET o == fetchWithRetry(retryConfig, calls[c].attempt, resp)
     IN  /\ calls' = [calls EXCEPT ![c] = CallAfter(@, o, resp.hasId)]
         /\ backend' = IF resp.applied THEN [backend EXCEPT ![c] = @ + 1] ELSE backend
         /\ cachedToken' = IF o.invalidate THEN invalidateToken(cachedToken) ELSE cachedToken
         /\ invalidations' = IF o.invalidate /\ c \in DOMAIN reqLog
                               THEN invalidations + 1 ELSE invalidations
         /\ reqLog' = IF c \in DOMAIN reqLog
                        THEN [reqLog EXCEPT ![c] = Append(@, resp)] ELSE reqLog
         /\ sleepLog' = IF o.act = "retry" /\ c \in DOMAIN sleepLog
                          THEN [sleepLog EXCEPT ![c] = Append(@, o.sleep)]
                          ELSE sleepLog
  /\ UNCHANGED <<retryConfig, authMode>>

\* part_012 302-303, 315-316, 329-330, 356-357: the sleep ends, the next attempt starts
FetchWake(c) ==
  /\ calls[c].pc = "sleep"
  /\ calls' = [calls EXCEPT ![c].pc = "auth", ![c].attempt = @ + 1]
  /\ UNCHANGED <<retryConfig, authMode, cachedToken, invalidations, backend, logVars>>

\* a client operation is called: getWorkItem (GET) or createWorkItem (POST)
ClientStart(c, method) ==
  /\ c \in ClientCallIds
  /\ calls[c].pc = "none"
  /\ calls' = [calls EXCEPT ![c] = NewCall(method)]
  /\ UNCHANGED <<retryConfig, authMode, cachedToken, invalidations, backend, logVars>>
  /\ UNCHANGED <<storeVars, execVars, toolVars>>

ClientSend(c) ==
  /\ c \in ClientCallIds
  /\ \E tokenOk \in BOOLEAN : FetchSend(c, tokenOk)
  /\ UNCHANGED <<storeVars, execVars, toolVars>>

ClientRespond(c) ==
  /\ c \in ClientCallIds
  /\ \E resp \in Responses(calls[c].method) : FetchRespond(c, resp)
  /\ UNCHANGED <<storeVars, execVars, toolVars>>

ClientWake(c) ==
  /\ c \in ClientCallIds
  /\ FetchWake(c)
  /\ UNCHANGED <<storeVars, execVars, toolVars>>

(***************************************************************************)
(* The execute stage                                                       *)
(***************************************************************************)
DryRunWorkItemId == -1
SessionIdInputs == {1, 99}

\* the subtask lists of the plans a session holds: up to MaxTasks subtasks, their
\* titles alternating or the same throughout
SubtaskLists ==
  {[i \in 1..n |-> [title |-> IF same \/ i % 2 = 1 THEN "a" ELSE "b"]] :
     n \in 0..MaxTasks, same \in BOOLEAN}

\* Array.prototype.slice(from, to) on a sequence, 0-based, to exclusive
slice(arr, from, to) == SubSeq(arr, from + 1, Min(to, Len(arr)))

\* part_007 157-161: the batches of the subtask list
RECURSIVE splitBatches(_, _, _)
splitBatches(subtasks, batchSize, i) ==
  IF i < Len(subtasks)
    THEN <<slice(subtasks, i, i + batchSize)>> \o splitBatches(subtasks, batchSize, i + batchSize)
    ELSE <<>>

\* part_007 168, 175: the index of a batch member in the whole plan
globalIndex_Local(batchIndex, batchSize, indexInBatch) == indexInBatch

globalIndex(batchIndex, batchSize, indexInBatch) == batchIndex * batchSize + indexInBatch

\* part_007 96-101: the entries of a dry run
dryRunTasks_NoSentinel(subtasks) ==
  [i \in 1..Len(subtasks) |->
     [index |-> i - 1, title |-> subtasks[i].title, workItemId |-> i - 1]]

dryRunTasks(subtasks) ==
  [i \in 1..Len(subtasks) |->
     [index |-> i - 1, title |-> subtasks[i].title, workItemId |-> DryRunWorkItemId]]

\* part_007 92-104
dryRunResult(subtasks) ==
  [present |-> TRUE, success |-> TRUE, dryRun |-> TRUE, totalTasks |-> Len(subtasks),
   createdTasks |-> dryRunTasks(subtasks), failedTasks |-> <<>>]

\* part_007 209: a sleep follows the batch
sleepsAfter_Always(batchIndex, batches) == TRUE

sleepsAfter(batchIndex, batches) == batchIndex < Len(batches) - 1

\* part_007 215
executionSuccess_Always(failedTasks) == TRUE

executionSuccess(failedTasks) == Len(failedTasks) = 0

\* part_007 215-227
executionResult(subtasks, createdTasks, failedTasks) ==
  [present |-> TRUE, success |-> executionSuccess(failedTasks), dryRun |-> FALSE,
   totalTasks |-> Len(subtasks), createdTasks |-> createdTasks,
   failedTasks |-> failedTasks]

IdleExec == [pc |-> "idle", sessionId |-> NoSession, dryRun |-> FALSE, batchSize |-> 1,
             session |-> 0, subtasks |-> <<>>, batchIndex |-> 0, createdTasks |-> <<>>,
             failedTasks |-> <<>>, trace |-> <<>>, result |-> NoResult, error |-> "none",
             stageBefore |-> "idle"]

\* the call that creates the work item of the subtask with index i of run e
TaskCall(e, i) == <<e, i>>

\* the calls of the batch execute e is processing
BatchCalls(e) ==
  LET x == execs[e]
      batches == splitBatches(x.subtasks, x.batchSize, 0)
  IN  {TaskCall(e, globalIndex(x.batchIndex, x.batchSize, j)) :
         j \in 0..(Len(batches[x.batchIndex + 1]) - 1)}

\* the id the backend gave the record of a call that succeeded
createdWorkItemId(c) == 100 + c[2]

\* part_007 258-264: createWorkItemFromSubtask is fulfilled
fulfilled(call) == call.pc = "ok" /\ call.hasId

\* part_007 173: Promise.allSettled has settled
allSettled_Any(cs) == \E c \in cs : calls[c].pc \in {"ok", "err"}

allSettled(cs) == \A c \in cs : calls[c].pc \in {"ok", "err"}

\* part_007 188-206: the results of the batch, in batch order
RECURSIVE collectCreated(_, _, _)
collectCreated(e, batch, j) ==
  IF j >= Len(batch) THEN <<>>
  ELSE LET x == execs[e]
           gi == globalIndex(x.batchIndex, x.batchSize, j)
           rest == collectCreated(e, batch, j + 1)
       IN  IF fulfilled(calls[TaskCall(e, gi)])
             THEN <<[index |-> gi, title |-> batch[j + 1].title,
                     workItemId |-> createdWorkItemId(TaskCall(e, gi))]>> \o rest
             ELSE rest

RECURSIVE collectFailed(_, _, _)
collectFailed(e, batch, j) ==
  IF j >= Len(batch) THEN <<>>
  ELSE LET x == execs[e]
           gi == globalIndex(x.batchIndex, x.batchSize, j)
           rest == collectFailed(e, batch, j + 1)
       IN  IF fulfilled(calls[TaskCall(e, gi)])
             THEN rest
             ELSE <<[index |-> gi, title |-> batch[j + 1].title]>> \o rest

\* part_007 166, 215: the for loop over the batches goes on to the next batch
\* or ends, whatever the outcomes collected so far
loopNext_StopOnFailure(batchIndex, batches, failedTasks) ==
  IF batchIndex + 1 < Len(batches) /\ failedTasks = <<>> THEN "batch" ELSE "finish"

loopNext(batchIndex, batches, failedTasks) ==
  IF batchIndex + 1 < Len(batches) THEN "batch" ELSE "finish"

\* part_007 66-115: execute() up to its first suspension
returnsDryRun_Never(dryRun) == FALSE

returnsDryRun(dryRun) == dryRun

ExecuteBegin(e, sid, dryRun, batchSize) ==
  /\ execs[e].pc = "idle"
  /\ LET call == [IdleExec EXCEPT !.sessionId = sid, !.dryRun = dryRun,
                                  !.batchSize = batchSize]
     IN  IF sid \notin DOMAIN sessions
           THEN execs' = [execs EXCEPT ![e] =
                            [call EXCEPT !.pc = "thrown", !.error = "Session not found"]]
         ELSE LET ref == sessions[sid]
                  plan == ctxHeap[heap[ref].context].executionPlan
              IN  IF ~plan.present
                    THEN execs' = [execs EXCEPT ![e] =
                            [call EXCEPT !.pc = "thrown", !.session = ref,
                                         !.error = "No execution plan"]]
                  ELSE IF returnsDryRun(dryRun)
                    THEN execs' = [execs EXCEPT ![e] =
                            [call EXCEPT !.pc = "returned", !.session = ref,
                                         !.subtasks = plan.subtasks,
                                         !.stageBefore = heap[ref].state,
                                         !.result = dryRunResult(plan.subtasks)]]
                  ELSE execs' = [execs EXCEPT ![e] =
                            [call EXCEPT !.session = ref, !.subtasks = plan.subtasks,
                               !.stageBefore = heap[ref].state,
                               !.pc = IF Len(plan.subtasks) = 0 THEN "finish"
                                                                ELSE "batch"]]
  /\ calls' = [c \in DOMAIN calls |-> IF c \in TaskCallIds /\ c[1] = e THEN NoCall
                                                                      ELSE calls[c]]
  /\ UNCHANGED <<retryConfig, authMode, cachedToken, invalidations, backend, logVars>>
  /\ UNCHANGED <<storeVars, toolVars>>

\* part_007 166-185: the creations of the next batch are started together
ExecBatchStart(e) ==
  /\ execs[e].pc = "batch"
  /\ LET x == execs[e]
         batches == splitBatches(x.subtasks, x.batchSize, 0)
     IN  /\ calls' = [c \in DOMAIN calls |->
                        IF c \in BatchCalls(e) THEN NewCall("POST") ELSE calls[c]]
         /\ execs' = [execs EXCEPT ![e].pc = "settling",
                        ![e].trace = Append(@, Len(batches[x.batchIndex + 1]))]
  /\ UNCHANGED <<retryConfig, authMode, cachedToken, invalidations, backend, logVars>>
  /\ UNCHANGED <<storeVars, toolVars>>

\* the responses of the backend to the creation requests of the execute stage
TaskResponses ==
  {r \in Responses("POST") :
     /\ r.status \in {200, 429, 404, 500, 0}
     /\ r.status = 429 => r.hdr = AbsentHeader
     /\ r.status # 200 => ~r.applied}

\* part_007 259 with part_012 116-143: the steps of the creations in flight
ExecTaskSend(c) ==
  /\ c \in TaskCallIds
  /\ \E tokenOk \in BOOLEAN : FetchSend(c, tokenOk)
  /\ UNCHANGED <<storeVars, execVars, toolVars>>

ExecTaskRespond(c) ==
  /\ c \in TaskCallIds
  /\ \E resp \in TaskResponses : FetchRespond(c, resp)
  /\ UNCHANGED <<storeVars, execVars, toolVars>>

ExecTaskWake(c) ==
  /\ c \in TaskCallIds
  /\ FetchWake(c)
  /\ UNCHANGED <<storeVars, execVars, toolVars>>

\* part_007 173-212: the batch has settled, its results are collected and the
\* settled promises dropped (only their state is kept)
ExecBatchSettle(e) ==
  /\ execs[e].pc = "settling"
  /\ allSettled(BatchCalls(e))
  /\ LET x == execs[e]
         batches == splitBatches(x.subtasks, x.batchSize, 0)
         batch == batches[x.batchIndex + 1]
         collected == [x EXCEPT
                         !.createdTasks = @ \o collectCreated(e, batch, 0),
                         !.failedTasks = @ \o collectFailed(e, batch, 0)]
     IN  execs' = [execs EXCEPT ![e] =
           IF sleepsAfter(x.batchIndex, batches)
             THEN [collected EXCEPT !.pc = "sleep"]
             ELSE [collected EXCEPT !.batchIndex = @ + 1,
                     !.pc = loopNext(x.batchIndex, batches, collected.failedTasks)]]
  /\ calls' = [c \in DOMAIN calls |->
                 IF c \in BatchCalls(e) /\ calls[c].pc \in {"ok", "err"}
                   THEN [NoCall EXCEPT !.pc = calls[c].pc]
                   ELSE calls[c]]
  /\ UNCHANGED <<retryConfig, authMode, cachedToken, invalidations, backend, logVars>>
  /\ UNCHANGED <<storeVars, toolVars>>

\* part_007 211: the sleep between two batches ends
ExecSleepDone(e) ==
  /\ execs[e].pc = "sleep"
  /\ LET x == execs[e]
         batches == splitBatches(x.subtasks, x.batchSize, 0)
     IN  execs' = [execs EXCEPT ![e].trace = Append(@, 0), ![e].batchIndex = @ + 1,
                     ![e].pc = loopNext(x.batchIndex, batches, x.failedTasks)]
  /\ UNCHANGED <<clientVars, logVars, storeVars, toolVars>>

\* part_007 117-121: the stage of the session after execute, which is written
\* only on success
stageAfterExecute_Execute(success, stage) == IF success THEN "idle" ELSE "execute"

stageAfterExecute(success, stage) == IF success THEN "idle" ELSE stage

\* part_007 215-227, 117-132: the result is built, the session updated on success
ExecFinish(e) ==
  /\ execs[e].pc = "finish"
  /\ LET x == execs[e]
         result == executionResult(x.subtasks, x.createdTasks, x.failedTasks)
     IN  /\ execs' = [execs EXCEPT ![e].pc = "returned", ![e].result = result]
         /\ heap' = [heap EXCEPT
                       ![x.session].state = stageAfterExecute(result.success, @)]
         /\ ctxHeap' = IF result.success
                         THEN [ctxHeap EXCEPT
                                 ![heap[x.session].context].lastExecution = result]
                         ELSE ctxHeap
  /\ UNCHANGED <<sessions, workItemIndex, transcripts, nextId, azureDevOps, creates, lastReturn,
                 updates, deletes>>
  /\ UNCHANGED <<clientVars, logVars, toolVars>>

(***************************************************************************)
(* AzureDevOpsService.getWorkItemsBatch                                    *)
(***************************************************************************)
BatchLimit == 200

\* the id lists getWorkItemsBatch is called with: none, one, the example of 250,
\* and the lists that just fill or just exceed a number of requests
IdCounts ==
  {n \in {0, 1, BatchLimit + 50} \cup
         {k * BatchLimit + d : k \in 1..MaxChunks, d \in {0, 1}} :
     n <= MaxChunks * BatchLimit}
IdLists == {[i \in 1..n |-> i] : n \in IdCounts}

\* part_012 402-408
RECURSIVE chunkArray_Overlap(_, _, _)
chunkArray_Overlap(array, chunkSize, i) ==
  IF i >= Len(array) THEN <<>>
  ELSE <<slice(array, i, i + chunkSize + 1)>> \o chunkArray_Overlap(array, chunkSize, i + chunkSize)

RECURSIVE chunkArray(_, _, _)
chunkArray(array, chunkSize, i) ==
  IF i >= Len(array) THEN <<>>
  ELSE <<slice(array, i, i + chunkSize)>> \o chunkArray(array, chunkSize, i + chunkSize)

\* Array.prototype.flat() on a sequence of sequences
RECURSIVE flat(_)
flat(arrs) == IF arrs = <<>> THEN <<>> ELSE Head(arrs) \o flat(Tail(arrs))

\* part_012 86-107: the id lists of the requests getWorkItemsBatch(ids) makes
requestChunks(ids) ==
  IF Len(ids) = 0 THEN <<>>
  ELSE IF Len(ids) > BatchLimit THEN chunkArray(ids, BatchLimit, 0)
  ELSE <<ids>>

\* part_012 109-110: data.value || [], the server answering with the items asked for
chunkValue(chunk, settled) == IF settled = "value" THEN chunk ELSE <<>>

\* part_012 94-98: the results of Promise.all, flattened
batchResult_CompletionOrder(chunks, settled, order) ==
  flat([k \in 1..Len(order) |-> chunkValue(chunks[order[k]], settled[order[k]])])

batchResult(chunks, settled, order) ==
  flat([i \in 1..Len(chunks) |-> chunkValue(chunks[i], settled[i])])

IdleFetch == [pc |-> "idle", ids |-> <<>>, requests |-> <<>>, settled |-> <<>>,
              order |-> <<>>, result |-> <<>>, error |-> "none"]

BatchCall(i) == <<-1, i - 1>>

\* getWorkItemsBatch(ids) is called: lines 86-107, up to the awaits
BatchBegin(ids) ==
  /\ batchFetch.pc = "idle"
  /\ LET chunks == requestChunks(ids)
     IN  /\ Len(chunks) <= MaxChunks
         /\ batchFetch' =
              IF chunks = <<>>
                THEN [IdleFetch EXCEPT !.pc = "returned", !.ids = ids]
                ELSE [IdleFetch EXCEPT !.pc = "waiting", !.ids = ids, !.requests = chunks,
                                       !.settled = [i \in 1..Len(chunks) |-> "pending"]]
         /\ calls' = [c \in DOMAIN calls |->
                        IF \E i \in 1..Len(chunks) : c = BatchCall(i)
                          THEN NewCall("GET") ELSE calls[c]]
  /\ UNCHANGED <<retryConfig, authMode, cachedToken, invalidations, backend, logVars>>
  /\ UNCHANGED <<storeVars, execVars, authVars, stageVars, updVars, chatVars>>

\* the responses of the backend to the requests of getWorkItemsBatch; hasId: the
\* body of a 2xx carries the value list
BatchResponses ==
  {r \in Responses("GET") :
     /\ r.status \in {200, 429, 404, 500, 0}
     /\ r.status = 429 => r.hdr = AbsentHeader}
  \cup {[status |-> 200, hdr |-> AbsentHeader, applied |-> FALSE, hasId |-> FALSE]}

\* part_012 94-110: the request of chunk c[2]+1 has ended as call says; Promise.all
\* resolves when every chunk has its result and rejects on the first rejection
chunkEnded(b, c, call) ==
  IF call.pc = "ok"
    THEN LET i == c[2] + 1
             settled == [b.settled EXCEPT ![i] = IF call.hasId THEN "value" ELSE "empty"]
             order == Append(b.order, i)
         IN  IF \A j \in 1..Len(settled) : settled[j] # "pending"
               THEN [b EXCEPT !.pc = "returned", !.settled = settled, !.order = order,
                               !.result = batchResult(b.requests, settled, order)]
               ELSE [b EXCEPT !.settled = settled, !.order = order]
  ELSE IF call.pc = "err"
    THEN [b EXCEPT !.pc = "thrown", !.error = call.err]
  ELSE b

\* the steps of the requests in flight; after a rejection the calls still running
\* have no part in the outcome and are not followed
BatchChunkSend(c) ==
  /\ c \in BatchCallIds
  /\ batchFetch.pc = "waiting"
  /\ \E tokenOk \in BOOLEAN : FetchSend(c, tokenOk)
  /\ batchFetch' = chunkEnded(batchFetch, c, calls'[c])
  /\ UNCHANGED <<storeVars, execVars, authVars, stageVars, updVars, chatVars>>

BatchChunkRespond(c) ==
  /\ c \in BatchCallIds
  /\ batchFetch.pc = "waiting"
  /\ \E resp \in BatchResponses : FetchRespond(c, resp)
  /\ batchFetch' = chunkEnded(batchFetch, c, calls'[c])
  /\ UNCHANGED <<storeVars, execVars, authVars, stageVars, updVars, chatVars>>

BatchChunkWake(c) ==
  /\ c \in BatchCallIds
  /\ batchFetch.pc = "waiting"
  /\ FetchWake(c)
  /\ UNCHANGED <<storeVars, execVars, toolVars>>

(***************************************************************************)
(* The specify and plan stages: analysis and plan generation               *)
(***************************************************************************)
DescriptionThreshold == 20

ItemTypes == {"Feature", "Epic", "User Story", "Bug", "Task"}
ParentTitle == "T"

\* System.Description of the item: absent, or a text of some length
Descriptions ==
  {[present |-> FALSE, length |-> 0]} \cup
  {[present |-> TRUE, length |-> n] :
     n \in {0, DescriptionThreshold, DescriptionThreshold + 1}}

\* the work items the backend returns to getWorkItem
Items == {[type |-> ty, title |-> ParentTitle, description |-> d] :
            ty \in ItemTypes, d \in Descriptions}

\* userResponses of a specify call: absent, or a record of answers, an answer
\* being a text (TRUE) or the empty string (FALSE)
NoAnswers == [present |-> FALSE, answers |-> <<>>]
Answers(f) == [present |-> TRUE, answers |-> f]
AnswerKeys == {"scenarios", "stakeholders", "reproduction", "acceptance"}
UserResponses ==
  {NoAnswers, Answers(<<>>)}
  \cup {Answers([k \in {key} |-> filled]) : key \in AnswerKeys, filled \in BOOLEAN}

\* userResponses || {} (part_006 67) and userResponses.key as a condition
answersOf(userResponses) == IF userResponses.present THEN userResponses.answers ELSE <<>>
answered(answers, key) == key \in DOMAIN answers /\ answers[key]

\* part_006 118: description && description.length > 20
hasDescription_Inclusive(description) ==
  description.present /\ description.length >= DescriptionThreshold

hasDescription(description) ==
  description.present /\ description.length > DescriptionThreshold

\* part_006 123-147: the clarifying questions
questionsFor(item, answers) ==
  (IF ~hasDescription(item.description) /\ DOMAIN answers = {}
     THEN <<"What is the detailed description and goal of this work item?",
            "What are the acceptance criteria?",
            "Are there any technical constraints or dependencies?">>
     ELSE <<>>)
  \o (IF item.type \in {"User Story", "Feature"} /\ ~answered(answers, "scenarios")
        THEN <<"What are the key user scenarios or use cases?">> ELSE <<>>)
  \o (IF item.type \in {"User Story", "Feature"} /\ ~answered(answers, "stakeholders")
        THEN <<"Who are the stakeholders or end users?">> ELSE <<>>)
  \o (IF item.type = "Bug" /\ ~answered(answers, "reproduction")
        THEN <<"What are the steps to reproduce the issue?",
               "What is the expected vs actual behavior?">>
        ELSE <<>>)

\* part_006 180-246: the sections of the specification text
buildSpecification(item, answers, childrenCount, relatedCount) ==
  <<"Title", "Type">>
  \o (IF item.description.present /\ item.description.length > 0
        THEN <<"Description">> ELSE <<>>)
  \o (IF answered(answers, "scenarios") THEN <<"User Scenarios">> ELSE <<>>)
  \o (IF answered(answers, "stakeholders") THEN <<"Stakeholders">> ELSE <<>>)
  \o (IF answered(answers, "reproduction") THEN <<"Reproduction Steps">> ELSE <<>>)
  \o (IF answered(answers, "acceptance") THEN <<"Acceptance Criteria">> ELSE <<>>)
  \o (IF answered(answers, "constraints") THEN <<"Technical Constraints">> ELSE <<>>)
  \o (IF childrenCount > 0 \/ relatedCount > 0 THEN <<"Context">> ELSE <<>>)

NoSpecifyResult == [specification |-> <<>>, clarifyingQuestions |-> <<>>,
                    needsMoreInfo |-> FALSE, state |-> "none"]

\* part_006 103-175
analyzeWorkItem(item, answers, childrenCount, relatedCount) ==
  LET questions == questionsFor(item, answers)
  IN  IF questions = <<>> \/ DOMAIN answers # {}
        THEN [specification |-> buildSpecification(item, answers, childrenCount, relatedCount),
              clarifyingQuestions |-> <<>>, needsMoreInfo |-> FALSE, state |-> "complete"]
        ELSE [specification |-> <<"Analyzing work item">>,
              clarifyingQuestions |-> questions, needsMoreInfo |-> TRUE,
              state |-> "gathering"]

\* a title: the text tag followed by the item title `of` ("" for none); exact is
\* FALSE for the same text written in another letter case
Title(tag, of) == [tag |-> tag, of |-> of, exact |-> TRUE]
OtherCase(title) == [title EXCEPT !.exact = FALSE]

SubTask(tag, of, effort, dependencies, priority) ==
  [title |-> Title(tag, of), workItemType |-> "Task", estimatedEffort |-> effort,
   dependencies |-> dependencies, priority |-> priority]

\* read-work-item.ts 257-291
breakdownFeature(title) ==
  <<SubTask("[Analysis] Research and design for", title, 5, <<>>, 1),
    SubTask("[Implementation] Core implementation for", title, 13, <<0>>, 1),
    SubTask("[Testing] Test", title, 8, <<1>>, 2),
    SubTask("[Documentation] Document", title, 3, <<1>>, 3)>>

\* read-work-item.ts 296-333
breakdownUserStory(title) ==
  <<SubTask("[Design] UI/UX design for", title, 3, <<>>, 1),
    SubTask("[Backend] API implementation for", title, 5, <<>>, 1),
    SubTask("[Frontend] UI implementation for", title, 5, <<0, 1>>, 2),
    SubTask("[Testing] Test", title, 3, <<2>>, 2)>>

\* read-work-item.ts 338-364
breakdownBug_Star(title) ==
  <<SubTask("[Investigation] Root cause analysis for", title, 2, <<>>, 1),
    SubTask("[Fix] Implement fix for", title, 3, <<0>>, 1),
    SubTask("[Verification] Verify fix for", title, 2, <<0>>, 2)>>

breakdownBug(title) ==
  <<SubTask("[Investigation] Root cause analysis for", title, 2, <<>>, 1),
    SubTask("[Fix] Implement fix for", title, 3, <<0>>, 1),
    SubTask("[Verification] Verify fix for", title, 2, <<1>>, 2)>>

\* read-work-item.ts 369-395
breakdownGeneric(title) ==
  <<SubTask("[Planning] Plan", title, 2, <<>>, 1),
    SubTask("[Implementation] Implement", title, 8, <<0>>, 1),
    SubTask("[Review] Review", title, 3, <<1>>, 2)>>

\* the approach hint of a plan call: absent, or a text (a sequence of characters)
NoApproach == [present |-> FALSE, text |-> <<>>]
ApproachTexts ==
  {<<>>, <<"t", "d", "d">>, <<"T", "D", "D">>, <<"T", "d", "d">>, <<"t", "d">>,
   <<"s", "p", "i", "k", "e">>, <<"t", "d", "d", " ", "S", "p", "i", "k", "e">>}
Approaches == {NoApproach} \cup {[present |-> TRUE, text |-> t] : t \in ApproachTexts}

\* String.prototype.toLowerCase() on the characters of the hints
lowerChar(ch) ==
  CASE ch = "T" -> "t" [] ch = "D" -> "d" [] ch = "S" -> "s" [] OTHER -> ch
toLowerCase(text) == [i \in 1..Len(text) |-> lowerChar(text[i])]

\* String.prototype.includes(part)
includes(text, part) ==
  \E i \in 0..(Len(text) - Len(part)) : SubSeq(text, i + 1, i + Len(part)) = part

\* read-work-item.ts 400-424
addApproachSpecificTasks_CaseSensitive(approach) ==
  (IF includes(approach, <<"t", "d", "d">>)
     THEN <<SubTask("[TDD] Write tests first", "", 3, <<>>, 1)>> ELSE <<>>)
  \o (IF includes(approach, <<"s", "p", "i", "k", "e">>)
        THEN <<SubTask("[Spike] Technical investigation", "", 5, <<>>, 1)>> ELSE <<>>)

addApproachSpecificTasks(approach) ==
  (IF includes(toLowerCase(approach), <<"t", "d", "d">>)
     THEN <<SubTask("[TDD] Write tests first", "", 3, <<>>, 1)>> ELSE <<>>)
  \o (IF includes(toLowerCase(approach), <<"s", "p", "i", "k", "e">>)
        THEN <<SubTask("[Spike] Technical investigation", "", 5, <<>>, 1)>> ELSE <<>>)

\* read-work-item.ts 203-227: the descriptors before the filter; if (approach) is
\* false for the empty string
generatedSubtasks(workItemType, title, approach) ==
  (CASE workItemType \in {"Feature", "Epic"} -> breakdownFeature(title)
     [] workItemType = "User Story" -> breakdownUserStory(title)
     [] workItemType = "Bug" -> breakdownBug(title)
     [] OTHER -> breakdownGeneric(title))
  \o (IF approach.present /\ approach.text # <<>>
        THEN addApproachSpecificTasks(approach.text) ELSE <<>>)

\* read-work-item.ts 235-237: the filter on the titles of the existing children
RECURSIVE filterSubtasks_IgnoreCase(_, _)
filterSubtasks_IgnoreCase(subtasks, existingTitles) ==
  IF subtasks = <<>> THEN <<>>
  ELSE (IF \E existing \in existingTitles :
             existing.tag = Head(subtasks).title.tag /\ existing.of = Head(subtasks).title.of
          THEN <<>> ELSE <<Head(subtasks)>>)
       \o filterSubtasks_IgnoreCase(Tail(subtasks), existingTitles)

RECURSIVE filterSubtasks(_, _)
filterSubtasks(subtasks, existingTitles) ==
  IF subtasks = <<>> THEN <<>>
  ELSE (IF \E existing \in existingTitles : existing = Head(subtasks).title
          THEN <<>> ELSE <<Head(subtasks)>>)
       \o filterSubtasks(Tail(subtasks), existingTitles)

\* read-work-item.ts 243-246: reduce((sum, task) => sum + (task.estimatedEffort || 0), 0)
RECURSIVE totalEffort(_)
totalEffort(subtasks) ==
  IF subtasks = <<>> THEN 0
  ELSE Head(subtasks).estimatedEffort + totalEffort(Tail(subtasks))

\* read-work-item.ts 184-252; existingChildren: the titles of the children
generatePlan(item, existingChildren, approach) ==
  LET subtasks == generatedSubtasks(item.type, item.title, approach)
      filteredSubtasks == filterSubtasks(subtasks, existingChildren)
  IN  [present |-> TRUE,
       parentTitle |-> item.title,
       subtasks |-> filteredSubtasks,
       totalEstimatedEffort |-> totalEffort(filteredSubtasks),
       filteredOut |-> IF existingChildren # {}
                         THEN Len(subtasks) - Len(filteredSubtasks) ELSE -1]

\* the titles the existing children of an item may carry: those a plan generates
\* for an item of its type, one of them in another letter case, one of a
\* descriptor for another item, and a title no plan generates
ChildTitles(workItemType) ==
  LET all == generatedSubtasks(workItemType, ParentTitle,
                               [present |-> TRUE, text |-> <<"t", "d", "d">>])
  IN  {all[i].title : i \in 1..Len(all)}
      \cup {OtherCase(all[1].title), Title(all[2].title.tag, "U"), Title("Done earlier", "")}

\* the sets of at most n elements of S
SubsetsUpTo(S, n) == {x \in SUBSET S : Cardinality(x) <= n}

\* the specify() or plan() call before it is made
IdleStageCall ==
  [pc |-> "idle", op |-> "none", sessionId |-> NoSession, session |-> 0,
   userResponses |-> NoAnswers, approach |-> NoApproach, specification |-> NoSpec,
   item |-> [type |-> "", title |-> "", description |-> [present |-> FALSE, length |-> 0]],
   existingChildren |-> {}, result |-> NoSpecifyResult, plan |-> NoPlan]

\* part_006 45-51: the call up to the await of getWorkItem; a session that the
\* store does not hold makes the call throw
SpecifyBegin(sid, userResponses) ==
  /\ stageCall.pc = "idle"
  /\ stageCall' =
       IF sid \in DOMAIN sessions
         THEN [stageCall EXCEPT !.pc = "item", !.op = "specify", !.sessionId = sid,
                                !.session = sessions[sid],
                                !.userResponses = userResponses]
         ELSE [stageCall EXCEPT !.pc = "thrown", !.op = "specify", !.sessionId = sid]
  /\ UNCHANGED <<storeVars, clientVars, logVars, execVars, batchVars, authVars, updVars, chatVars>>

\* read-work-item.ts 125-132: plan goes on when the store holds the session,
\* with or without a specification in it
planGoesOn_NeedsSpecification(found, specification) == found /\ specification # NoSpec

planGoesOn(found, specification) == found

\* read-work-item.ts 122-135: the call up to the await of getWorkItem; the
\* specification is read from the session before the item is fetched
PlanBegin(sid, approach) ==
  /\ stageCall.pc = "idle"
  /\ stageCall' =
       IF planGoesOn(sid \in DOMAIN sessions,
                     IF sid \in DOMAIN sessions
                       THEN ctxHeap[StoredSession(sid).context].specification
                       ELSE NoSpec)
         THEN [stageCall EXCEPT
                 !.pc = "item", !.op = "plan", !.sessionId = sid,
                 !.session = sessions[sid], !.approach = approach,
                 !.specification =
                    IF ctxHeap[StoredSession(sid).context].specification # NoSpec
                      THEN ctxHeap[StoredSession(sid).context].specification
                      ELSE <<"No specification available">>]
         ELSE [stageCall EXCEPT !.pc = "thrown", !.op = "plan", !.sessionId = sid]
  /\ UNCHANGED <<storeVars, clientVars, logVars, execVars, batchVars, authVars, updVars, chatVars>>

\* part_006 54, read-work-item.ts 135: getWorkItem resolves with an item
StageItemRead(item) ==
  /\ stageCall.pc = "item"
  /\ stageCall' = [stageCall EXCEPT
                     !.pc = IF stageCall.op = "specify" THEN "related" ELSE "children",
                     !.item = item]
  /\ UNCHANGED <<storeVars, clientVars, logVars, execVars, batchVars, authVars, updVars, chatVars>>

\* part_006 92-97, read-work-item.ts 173-178: the session objects after the
\* catch clause, which logs and throws
catchStage_ResetStage(objects, session) == [objects EXCEPT ![session].state = "idle"]

catchStage(objects, session) == objects

\* part_006 92-97, read-work-item.ts 173-178: a read of the backend rejects, the
\* call throws
StageReadFail ==
  /\ stageCall.pc \in {"item", "related", "children"}
  /\ stageCall' = [stageCall EXCEPT !.pc = "thrown"]
  /\ heap' = catchStage(heap, stageCall.session)
  /\ UNCHANGED <<sessions, workItemIndex, ctxHeap, transcripts, nextId, azureDevOps, creates,
                 lastReturn, updates, deletes>>
  /\ UNCHANGED <<clientVars, logVars, execVars, batchVars, authVars, updVars, chatVars>>

\* part_006 57-91: the children and the related items have been read; the
\* context goes into a new context object of the session, and a complete
\* analysis moves the stage
SpecifyFinish(childrenCount, relatedCount) ==
  /\ stageCall.pc = "related"
  /\ LET session == stageCall.session
         answers == answersOf(stageCall.userResponses)
         context == [present |-> TRUE, workItem |-> stageCall.item,
                     children |-> childrenCount, related |-> relatedCount,
                     userResponses |-> answers]
         result == analyzeWorkItem(stageCall.item, answers, childrenCount, relatedCount)
         stored == [ctxHeap[heap[session].context] EXCEPT !.specifyContext = context]
     IN  /\ ctxHeap' = Append(ctxHeap,
                         IF result.state = "complete"
                           THEN [stored EXCEPT !.specification = result.specification]
                           ELSE stored)
         /\ heap' = [heap EXCEPT
                       ![session].context = Len(ctxHeap) + 1,
                       ![session].state = IF result.state = "complete" THEN "specify" ELSE @]
         /\ stageCall' = [stageCall EXCEPT !.pc = "returned", !.result = result]
  /\ UNCHANGED <<sessions, workItemIndex, transcripts, nextId, azureDevOps, creates, lastReturn,
                 updates, deletes>>
  /\ UNCHANGED <<clientVars, logVars, execVars, batchVars, authVars, updVars, chatVars>>

\* read-work-item.ts 141-172: the children have been read; the plan goes into a
\* new context object of the session and the stage becomes plan
PlanFinish(existingChildren) ==
  /\ stageCall.pc = "children"
  /\ LET session == stageCall.session
         executionPlan == generatePlan(stageCall.item, existingChildren, stageCall.approach)
     IN  /\ ctxHeap' = Append(ctxHeap, [ctxHeap[heap[session].context] EXCEPT
                                          !.executionPlan = executionPlan])
         /\ heap' = [heap EXCEPT ![session].context = Len(ctxHeap) + 1,
                                 ![session].state = "plan"]
         /\ stageCall' = [stageCall EXCEPT !.pc = "returned",
                                            !.existingChildren = existingChildren,
                                            !.plan = executionPlan]
  /\ UNCHANGED <<sessions, workItemIndex, transcripts, nextId, azureDevOps, creates, lastReturn,
                 updates, deletes>>
  /\ UNCHANGED <<clientVars, logVars, execVars, batchVars, authVars, updVars, chatVars>>

(***************************************************************************)
(* The update tool                                                         *)
(***************************************************************************)
\* the inputs of the tool: the optional fields given (title, tags) and
\* additionalFields, which is absent, {} or holds one field
UpdateInputs ==
  [title : BOOLEAN, tags : BOOLEAN, additionalFields : {"absent", "empty", "one"}]

\* update-work-item.ts 32-63: the fields object
updateFields(input) ==
  (IF input.title THEN {"System.Title"} ELSE {})
  \cup (IF input.tags THEN {"System.Tags"} ELSE {})
  \cup (IF input.additionalFields = "one" THEN {"Custom.Field"} ELSE {})

\* update-work-item.ts 66: Object.keys(fields).length === 0
noFields_Never(fields) == FALSE

noFields(fields) == Cardinality(fields) = 0

IdleUpdateTool ==
  [pc |-> "idle", input |-> [title |-> FALSE, tags |-> FALSE, additionalFields |-> "absent"],
   fields |-> {}, error |-> "none"]

\* update-work-item.ts 9-72: the tool up to the await of the PATCH
UpdateToolBegin(input) ==
  /\ updateTool.pc = "idle"
  /\ LET fields == updateFields(input)
     IN  IF noFields(fields)
           THEN /\ updateTool' = [updateTool EXCEPT !.pc = "thrown", !.input = input,
                                    !.error = "No fields provided for update"]
                /\ UNCHANGED calls
           ELSE /\ updateTool' = [updateTool EXCEPT !.pc = "waiting", !.input = input,
                                                    !.fields = fields]
                /\ calls' = [calls EXCEPT ![UpdateCallId] = NewCall("PATCH")]
  /\ UNCHANGED <<retryConfig, authMode, cachedToken, invalidations, backend, logVars>>
  /\ UNCHANGED <<storeVars, execVars, batchVars, authVars, stageVars, chatVars>>

\* update-work-item.ts 72-85: the PATCH has ended as call says
updateEnded(u, call) ==
  IF call.pc = "ok" THEN [u EXCEPT !.pc = "returned"]
  ELSE IF call.pc = "err" THEN [u EXCEPT !.pc = "thrown", !.error = call.err]
  ELSE u

UpdateToolSend ==
  /\ updateTool.pc = "waiting"
  /\ \E tokenOk \in BOOLEAN : FetchSend(UpdateCallId, tokenOk)
  /\ updateTool' = updateEnded(updateTool, calls'[UpdateCallId])
  /\ UNCHANGED <<storeVars, execVars, batchVars, authVars, stageVars, chatVars>>

UpdateToolRespond ==
  /\ updateTool.pc = "waiting"
  /\ \E resp \in Responses("PATCH") : FetchRespond(UpdateCallId, resp)
  /\ updateTool' = updateEnded(updateTool, calls'[UpdateCallId])
  /\ UNCHANGED <<storeVars, execVars, batchVars, authVars, stageVars, chatVars>>

UpdateToolWake ==
  /\ updateTool.pc = "waiting"
  /\ FetchWake(UpdateCallId)
  /\ UNCHANGED <<storeVars, execVars, toolVars>>

(***************************************************************************)
(* The chat route and the Agent                                            *)
(***************************************************************************)
\* the texts of a chat request, as sequences of characters
UserTexts == {<<"p">>, <<"q", "r">>}

\* services/claude.ts 50-66: what the model stream yields before done: text
\* deltas, possibly empty, and tool uses
ChatChunks ==
  {[type |-> "text", text |-> t] : t \in {<<>>, <<"a">>, <<"b", "c">>}}
  \cup {[type |-> "tool_use", text |-> <<>>]}

\* part_009 37-38: assistantMessage += chunk.text, for a text chunk with a text
appendText_Replace(assistantMessage, chunk) ==
  IF chunk.type = "text" /\ chunk.text # <<>> THEN chunk.text ELSE assistantMessage

appendText(assistantMessage, chunk) ==
  IF chunk.type = "text" /\ chunk.text # <<>>
    THEN assistantMessage \o chunk.text
    ELSE assistantMessage

\* part_009 17-22, 54-59: a message; turn stands for the nanoid of the message,
\* which no other chat turn produces
Message(role, content, c) == [role |-> role, content |-> content, turn |-> c]

\* the text chunks streamed over all chat turns
RECURSIVE StreamedUpTo(_)
StreamedUpTo(c) == IF c = 0 THEN 0 ELSE Len(chats[c].streamed) + StreamedUpTo(c - 1)

\* Agent.chat, part_009 15-24: the user message is pushed to the transcript of
\* the session object the agent holds; the turns are numbered in the order in
\* which they start
chatBegun(c, via, sessionId, ref, userMessage) ==
  /\ chats' = [chats EXCEPT ![c] =
        [pc |-> "streaming", via |-> via, sessionId |-> sessionId, session |-> ref,
         userMessage |-> userMessage, assistantMessage |-> <<>>, streamed |-> <<>>]]
  /\ transcripts' = [transcripts EXCEPT ![heap[ref].transcript] =
        Append(@, Message("user", userMessage, c))]

\* routes/chat.ts 14-33 and 49-62: a chat request; the session is looked up in
\* the SessionManager of the chat routes
ChatPost(c, sessionId, userMessage) ==
  /\ chats[c].pc = "idle"
  /\ \A d \in ChatIds : d < c => chats[d].pc # "idle"
  /\ IF sessionId \in DOMAIN chatSessions
       THEN chatBegun(c, "route", sessionId, chatSessions[sessionId], userMessage)
       ELSE /\ chats' = [chats EXCEPT ![c] =
                  [IdleChat EXCEPT !.pc = "notfound", !.via = "route",
                                   !.sessionId = sessionId]]
            /\ UNCHANGED transcripts
  /\ UNCHANGED <<sessions, workItemIndex, heap, ctxHeap, nextId, azureDevOps, creates,
                 lastReturn, updates, deletes, chatSessions>>
  /\ UNCHANGED <<clientVars, logVars, execVars, batchVars, authVars, stageVars, updVars>>

\* part_009 10-24: an Agent constructed with a session object of the store
\* starts a chat turn
AgentChat(c, sessionId, userMessage) ==
  /\ chats[c].pc = "idle"
  /\ \A d \in ChatIds : d < c => chats[d].pc # "idle"
  /\ sessionId \in DOMAIN sessions
  /\ chatBegun(c, "agent", sessionId, sessions[sessionId], userMessage)
  /\ UNCHANGED <<sessions, workItemIndex, heap, ctxHeap, nextId, azureDevOps, creates,
                 lastReturn, updates, deletes, chatSessions>>
  /\ UNCHANGED <<clientVars, logVars, execVars, batchVars, authVars, stageVars, updVars>>

\* part_009 33-51: the model stream yields a text or a tool use; streamed is the
\* history of what the stream yielded
ChatChunk(c, chunk) ==
  /\ chats[c].pc = "streaming"
  /\ StreamedUpTo(MaxChats) < MaxStreamChunks
  /\ chats' = [chats EXCEPT ![c].assistantMessage = appendText(@, chunk),
                            ![c].streamed = Append(@, chunk)]
  /\ UNCHANGED <<storeVars, clientVars, logVars, execVars, batchVars, authVars, stageVars,
                 updVars, chatSessions>>

\* part_009 52-62: the stream is done, the assistant message is pushed
ChatDone(c) ==
  /\ chats[c].pc = "streaming"
  /\ chats' = [chats EXCEPT ![c].pc = "done"]
  /\ transcripts' = [transcripts EXCEPT ![heap[chats[c].session].transcript] =
        Append(@, Message("assistant", chats[c].assistantMessage, c))]
  /\ UNCHANGED <<sessions, workItemIndex, heap, ctxHeap, nextId, azureDevOps, creates,
                 lastReturn, updates, deletes, chatSessions>>
  /\ UNCHANGED <<clientVars, logVars, execVars, batchVars, authVars, stageVars, updVars>>

\* services/claude.ts 42-50: the request or the stream of the model throws,
\* the generator of the agent ends with that error
ChatFail(c) ==
  /\ chats[c].pc = "streaming"
  /\ chats' = [chats EXCEPT ![c].pc = "failed"]
  /\ UNCHANGED <<storeVars, clientVars, logVars, execVars, batchVars, authVars, stageVars,
                 updVars, chatSessions>>

(***************************************************************************)
(* AuthService: the token cache                                            *)
(***************************************************************************)
TokenCallIds == 1..MaxTokenCalls

\* the lifetimes (expires_in, in minutes) the token endpoint grants: at the refresh
\* buffer, one and two minutes above it
ExpiresIn == {BufferMinutes, BufferMinutes + 1, BufferMinutes + 2}

IdleTokenCall == [pc |-> "idle", token |-> NoToken, via |-> "none", returnedAt |-> 0,
                  first |-> FALSE, sawRefill |-> FALSE, stale |-> FALSE]

NotInvalidated == [pending |-> FALSE, refilled |-> FALSE]

\* getAccessToken(): lines 55-68, up to the await of the token exchange; first: no
\* getAccessToken() call has begun since the latest invalidateToken()
AuthBegin(p) ==
  /\ tokenCalls[p].pc = "idle"
  /\ LET call == [IdleTokenCall EXCEPT !.first = invalidated.pending,
                                       !.sawRefill = invalidated.refilled]
     IN  tokenCalls' = [tokenCalls EXCEPT ![p] =
           IF authMode = "pat"
             THEN [call EXCEPT !.pc = "returned", !.via = "pat", !.returnedAt = now]
           ELSE IF cachedToken.present /\ isTokenValid(cachedToken)
             THEN [call EXCEPT !.pc = "returned", !.via = "cache", !.returnedAt = now,
                               !.token = cachedToken]
           ELSE [call EXCEPT !.pc = "exchanging"]]
  /\ invalidated' = [invalidated EXCEPT !.pending = FALSE]
  /\ UNCHANGED <<now, retryConfig, authMode, cachedToken, invalidations, calls, backend>>
  /\ UNCHANGED <<storeVars, logVars, execVars, batchVars, stageVars, updVars, chatVars>>

\* getAccessToken(): lines 69-70 with fetchServicePrincipalToken 126-153, the token
\* endpoint has answered with a token of the lifetime expiresIn
AuthExchanged(p, expiresIn) ==
  /\ tokenCalls[p].pc = "exchanging"
  /\ cachedToken' = fetchedToken(expiresIn)
  /\ tokenCalls' = [tokenCalls EXCEPT ![p] =
        [@ EXCEPT !.pc = "returned", !.via = "exchange", !.returnedAt = now,
                  !.token = fetchedToken(expiresIn)]]
  /\ invalidated' = IF tokenCalls[p].stale /\ invalidated.pending
                      THEN [invalidated EXCEPT !.refilled = TRUE] ELSE invalidated
  /\ UNCHANGED <<now, retryConfig, authMode, invalidations, calls, backend>>
  /\ UNCHANGED <<storeVars, logVars, execVars, batchVars, stageVars, updVars, chatVars>>

\* fetchServicePrincipalToken 135-158: the exchange fails, getAccessToken() throws
AuthExchangeFailed(p) ==
  /\ tokenCalls[p].pc = "exchanging"
  /\ tokenCalls' = [tokenCalls EXCEPT ![p].pc = "failed"]
  /\ UNCHANGED <<now, invalidated, clientVars>>
  /\ UNCHANGED <<storeVars, logVars, execVars, batchVars, stageVars, updVars, chatVars>>

\* invalidateToken(): lines 96-99; the exchanges in flight began before it
AuthInvalidate ==
  /\ invalidations < MaxInvalidations
  /\ cachedToken' = invalidateToken(cachedToken)
  /\ invalidations' = invalidations + 1
  /\ invalidated' = [pending |-> TRUE, refilled |-> FALSE]
  /\ tokenCalls' = [p \in TokenCallIds |->
                      IF tokenCalls[p].pc = "exchanging"
                        THEN [tokenCalls[p] EXCEPT !.stale = TRUE] ELSE tokenCalls[p]]
  /\ UNCHANGED <<now, retryConfig, authMode, calls, backend>>
  /\ UNCHANGED <<storeVars, logVars, execVars, batchVars, stageVars, updVars, chatVars>>

\* a minute passes
Tick ==
  /\ now < MaxTime
  /\ now' = now + 1
  /\ UNCHANGED <<tokenCalls, invalidated, clientVars>>
  /\ UNCHANGED <<storeVars, logVars, execVars, batchVars, stageVars, updVars, chatVars>>

(***************************************************************************)
(* Initial states                                                          *)
(***************************************************************************)
\* session-manager.ts 6-12: the store after construction
StoreEmpty ==
  /\ sessions = EmptyMap
  /\ workItemIndex = EmptyMap
  /\ heap = <<>>
  /\ ctxHeap = <<>>
  /\ nextId = 0
  /\ creates = [p \in CreateCallIds |-> IdleCreate]
  /\ lastReturn = [k \in Keys |-> NoSession]
  /\ updates = 0
  /\ deletes = NoDeletes
  /\ transcripts = <<>>

\* part_012 55-65, part_013 29-34: the client and the auth service after construction
ClientIdle(maxR) ==
  /\ retryConfig \in RetryConfigs(maxR)
  /\ authMode \in {"pat", "sp"}
  /\ cachedToken = NoToken
  /\ invalidations = 0
  /\ calls = [c \in CallIds |-> NoCall]
  /\ backend = [c \in CallIds |-> 0]

ExecIdle == execs = [e \in ExecIds |-> IdleExec]

AuthIdle ==
  /\ now = 0
  /\ tokenCalls = [p \in TokenCallIds |-> IdleTokenCall]
  /\ invalidated = NotInvalidated

ToolsIdle ==
  /\ batchFetch = IdleFetch
  /\ AuthIdle
  /\ stageCall = IdleStageCall
  /\ updateTool = IdleUpdateTool
  /\ chatSessions = EmptyMap
  /\ chats = [c \in ChatIds |-> IdleChat]

\* a store that holds one session, created earlier, at some stage of the workflow,
\* with the plan an earlier plan call left in it, if any
StoreWithSession ==
  /\ \E st \in Stages, subtasks \in SubtaskLists, planned \in BOOLEAN :
       /\ ~planned => st # "plan"
       /\ ~planned => subtasks = <<>>
       /\ heap = <<[id |-> 1, key |-> CHOOSE k \in Keys : k[2] = 1, state |-> st,
                    transcript |-> 1, context |-> 1]>>
       /\ transcripts = <<<<>>>>
       /\ ctxHeap = <<[specification |-> NoSpec,
                       executionPlan |-> [present |-> planned, subtasks |-> subtasks],
                       lastExecution |-> NoResult,
                       specifyContext |-> NoSpecifyContext]>>
  /\ sessions = MapSet(EmptyMap, 1, 1)
  /\ workItemIndex = MapSet(EmptyMap, CHOOSE k \in Keys : k[2] = 1, 1)
  /\ nextId = 1
  /\ creates = [p \in CreateCallIds |-> IdleCreate]
  /\ lastReturn = [k \in Keys |-> IF k[2] = 1 THEN 1 ELSE NoSession]
  /\ updates = 0
  /\ deletes = NoDeletes

(***************************************************************************)
(* The session store under concurrent callers                              *)
(***************************************************************************)
InitStore ==
  /\ StoreEmpty
  /\ azureDevOps \in BOOLEAN
  /\ ClientIdle(0)
  /\ retryConfig = [DEFAULT_RETRY_CONFIG EXCEPT !.maxRetries = 0]
  /\ authMode = "pat"
  /\ reqLog = EmptyMap
  /\ sleepLog = EmptyMap
  /\ ExecIdle
  /\ ToolsIdle

NextStore ==
  \/ \E p \in CreateCallIds, key \in Keys : CreateBegin(p, key)
  \/ \E p \in CreateCallIds, ok \in BOOLEAN : CreateLoad(p, ok)
  \/ \E p \in CreateCallIds : CreateRegister(p)
  \/ \E id \in 1..MaxSessions, upd \in SessionUpdates : Update(id, upd)
  \/ \E id \in 1..MaxSessions : Delete(id)

SpecStore == InitStore /\ [][NextStore]_vars

(***************************************************************************)
(* One client operation against an unstable backend                        *)
(***************************************************************************)
InitClient ==
  /\ StoreEmpty
  /\ azureDevOps = TRUE
  /\ ClientIdle(MaxRetriesCfg)
  /\ reqLog = [c \in ClientCallIds |-> <<>>]
  /\ sleepLog = [c \in ClientCallIds |-> <<>>]
  /\ ExecIdle
  /\ ToolsIdle

NextClient ==
  \/ \E c \in ClientCallIds, method \in {"GET", "POST"} : ClientStart(c, method)
  \/ \E c \in ClientCallIds : ClientSend(c)
  \/ \E c \in ClientCallIds : ClientRespond(c)
  \/ \E c \in ClientCallIds : ClientWake(c)

SpecClient == InitClient /\ [][NextClient]_vars

(***************************************************************************)
(* One client call answered by 5xx and network failures only, under any    *)
(* retry configuration                                                     *)
(***************************************************************************)
\* part_012 5-10, 59: the retry configurations the constructor accepts, none
\* of the four numbers being validated
BackoffConfigs ==
  [maxRetries : 0..MaxRetriesCfg, initialDelayMs : {1, DefaultInitialDelayMs},
   maxDelayMs : {3000, DefaultMaxDelayMs}, backoffMultiplier : 0..3]

InitBackoff ==
  /\ StoreEmpty
  /\ azureDevOps = TRUE
  /\ retryConfig \in BackoffConfigs
  /\ authMode = "pat"
  /\ cachedToken = NoToken
  /\ invalidations = 0
  /\ calls = [c \in CallIds |-> NoCall]
  /\ backend = [c \in CallIds |-> 0]
  /\ reqLog = [c \in ClientCallIds |-> <<>>]
  /\ sleepLog = [c \in ClientCallIds |-> <<>>]
  /\ ExecIdle
  /\ ToolsIdle

\* the request of the call is answered by a 5xx or fails without a response
ClientRespondTransient(c) ==
  /\ c \in ClientCallIds
  /\ \E resp \in Responses(calls[c].method) :
       /\ resp.status \in {500, 0}
       /\ FetchRespond(c, resp)
  /\ UNCHANGED <<storeVars, execVars, toolVars>>

NextBackoff ==
  \/ \E c \in ClientCallIds : ClientStart(c, "GET")
  \/ \E c \in ClientCallIds : ClientSend(c)
  \/ \E c \in ClientCallIds : ClientRespondTransient(c)
  \/ \E c \in ClientCallIds : ClientWake(c)

SpecBackoff == InitBackoff /\ [][NextBackoff]_vars

(***************************************************************************)
(* The execute stage on a stored session                                   *)
(***************************************************************************)
InitExec ==
  /\ StoreWithSession
  /\ azureDevOps = TRUE
  /\ ClientIdle(MaxExecRetries)
  /\ retryConfig = [DEFAULT_RETRY_CONFIG EXCEPT !.maxRetries = MaxExecRetries]
  /\ authMode = "pat"
  /\ reqLog = EmptyMap
  /\ sleepLog = EmptyMap
  /\ ExecIdle
  /\ ToolsIdle

NextExec ==
  \/ \E sid \in SessionIdInputs, dryRun \in BOOLEAN, batchSize \in 1..MaxBatchSize :
       ExecuteBegin(1, sid, dryRun, batchSize)
  \/ \E e \in ExecIds : ExecBatchStart(e)
  \/ \E c \in TaskCallIds : ExecTaskSend(c)
  \/ \E c \in TaskCallIds : ExecTaskRespond(c)
  \/ \E c \in TaskCallIds : ExecTaskWake(c)
  \/ \E e \in ExecIds : ExecBatchSettle(e)
  \/ \E e \in ExecIds : ExecSleepDone(e)
  \/ \E e \in ExecIds : ExecFinish(e)

SpecExec == InitExec /\ [][NextExec]_vars

(***************************************************************************)
(* One specify or plan call on a stored session                            *)
(***************************************************************************)
\* the session an earlier part of the workflow left: at some stage, with or
\* without a specification, with or without a plan
InitStages ==
  /\ \E st \in Stages, specified \in BOOLEAN, planned \in BOOLEAN :
       /\ st = "plan" => planned
       /\ heap = <<[id |-> 1, key |-> CHOOSE k \in Keys : k[2] = 1, state |-> st,
                    transcript |-> 1, context |-> 1]>>
       /\ transcripts = <<<<>>>>
       /\ ctxHeap = <<[specification |-> IF specified THEN <<"Title", "Type">> ELSE NoSpec,
                       executionPlan |->
                         IF planned
                           THEN generatePlan([type |-> "Task", title |-> ParentTitle,
                                              description |-> [present |-> FALSE,
                                                               length |-> 0]],
                                             {}, NoApproach)
                           ELSE NoPlan,
                       lastExecution |-> NoResult,
                       specifyContext |-> NoSpecifyContext]>>
  /\ sessions = MapSet(EmptyMap, 1, 1)
  /\ workItemIndex = MapSet(EmptyMap, CHOOSE k \in Keys : k[2] = 1, 1)
  /\ nextId = 1
  /\ creates = [p \in CreateCallIds |-> IdleCreate]
  /\ lastReturn = [k \in Keys |-> IF k[2] = 1 THEN 1 ELSE NoSession]
  /\ updates = 0
  /\ deletes = NoDeletes
  /\ azureDevOps = TRUE
  /\ ClientIdle(DefaultMaxRetries)
  /\ retryConfig = DEFAULT_RETRY_CONFIG
  /\ authMode = "pat"
  /\ reqLog = EmptyMap
  /\ sleepLog = EmptyMap
  /\ ExecIdle
  /\ ToolsIdle

NextStages ==
  \/ \E sid \in SessionIdInputs, userResponses \in UserResponses :
       SpecifyBegin(sid, userResponses)
  \/ \E sid \in SessionIdInputs, approach \in Approaches : PlanBegin(sid, approach)
  \/ \E item \in Items : StageItemRead(item)
  \/ StageReadFail
  \/ \E childrenCount \in 0..1, relatedCount \in 0..1 :
       SpecifyFinish(childrenCount, relatedCount)
  \/ \E existingChildren \in SubsetsUpTo(ChildTitles(stageCall.item.type), MaxChildren) :
       PlanFinish(existingChildren)

SpecStages == InitStages /\ [][NextStages]_vars

(***************************************************************************)
(* One specify or plan call and direct updates of the store                *)
(***************************************************************************)
NextOverlap ==
  \/ \E sid \in SessionIdInputs, userResponses \in {NoAnswers, Answers(<<>>)} :
       SpecifyBegin(sid, userResponses)
  \/ \E sid \in SessionIdInputs : PlanBegin(sid, NoApproach)
  \/ \E item \in {i \in Items : i.type \in {"Task", "Bug"}} : StageItemRead(item)
  \/ StageReadFail
  \/ SpecifyFinish(0, 0)
  \/ PlanFinish({})
  \/ \E id \in 1..MaxSessions, upd \in SessionUpdates : Update(id, upd)

SpecOverlap == InitStages /\ [][NextOverlap]_vars

(***************************************************************************)
(* specify, plan and execute calls overlapping on a created session        *)
(***************************************************************************)
\* session-manager.ts 40-56: the session as create() stores it, at stage idle
\* and without specification or plan
InitSession ==
  /\ heap = <<[id |-> 1, key |-> CHOOSE k \in Keys : k[2] = 1, state |-> "idle",
               transcript |-> 1, context |-> 1]>>
  /\ transcripts = <<<<>>>>
  /\ ctxHeap = <<[specification |-> NoSpec,
                  executionPlan |-> [present |-> FALSE, subtasks |-> <<>>],
                  lastExecution |-> NoResult,
                  specifyContext |-> NoSpecifyContext]>>
  /\ sessions = MapSet(EmptyMap, 1, 1)
  /\ workItemIndex = MapSet(EmptyMap, CHOOSE k \in Keys : k[2] = 1, 1)
  /\ nextId = 1
  /\ creates = [p \in CreateCallIds |-> IdleCreate]
  /\ lastReturn = [k \in Keys |-> IF k[2] = 1 THEN 1 ELSE NoSession]
  /\ updates = 0
  /\ deletes = NoDeletes
  /\ azureDevOps = TRUE
  /\ ClientIdle(1)
  /\ retryConfig = [DEFAULT_RETRY_CONFIG EXCEPT !.maxRetries = 1]
  /\ authMode = "pat"
  /\ reqLog = EmptyMap
  /\ sleepLog = EmptyMap
  /\ ExecIdle
  /\ ToolsIdle

\* the promise of the specify or plan call has settled; the caller may call again
StageCallEnd ==
  /\ stageCall.pc \in {"returned", "thrown"}
  /\ stageCall' = IdleStageCall
  /\ UNCHANGED <<storeVars, clientVars, logVars, execVars, batchVars, authVars, updVars, chatVars>>

\* the existing children of the planned Bug: they leave one descriptor or none
FewLeft ==
  LET all == breakdownBug(ParentTitle)
  IN  {{all[i].title : i \in 2..Len(all)}, {all[i].title : i \in 1..Len(all)}}

\* the number of specify and plan calls that write to the session
MaxStageCalls == 2

\* the second execute call is made while the first is in progress
NextSession ==
  \/ Len(ctxHeap) <= MaxStageCalls
       /\ SpecifyBegin(1, Answers([k \in {"reproduction"} |-> TRUE]))
  \/ Len(ctxHeap) <= MaxStageCalls /\ PlanBegin(1, NoApproach)
  \/ \E item \in {i \in Items : i.type = "Bug" /\ ~i.description.present} :
       StageItemRead(item)
  \/ StageReadFail
  \/ SpecifyFinish(0, 0)
  \/ \E existingChildren \in FewLeft : PlanFinish(existingChildren)
  \/ StageCallEnd
  \/ \E e \in ExecIds, dryRun \in BOOLEAN :
       /\ e = 2 => execs[1].pc \notin {"idle", "returned", "thrown"}
       /\ ExecuteBegin(e, 1, dryRun, 1)
  \/ \E e \in ExecIds : ExecBatchStart(e)
  \/ \E c \in TaskCallIds : ExecTaskSend(c)
  \/ \E c \in TaskCallIds : ExecTaskRespond(c)
  \/ \E c \in TaskCallIds : ExecTaskWake(c)
  \/ \E e \in ExecIds : ExecBatchSettle(e)
  \/ \E e \in ExecIds : ExecFinish(e)

SpecSession == InitSession /\ [][NextSession]_vars

(***************************************************************************)
(* The tools on a stored session, one call at a time                       *)
(***************************************************************************)
StageRunning == stageCall.pc \notin {"idle", "returned", "thrown"}
ExecRunning == \E e \in ExecIds : execs[e].pc \notin {"idle", "returned", "thrown"}
UpdateRunning == updateTool.pc = "waiting"

\* the session an earlier part of the workflow left, with or without a plan of
\* one descriptor
InitTools ==
  /\ \E st \in Stages, planned \in BOOLEAN :
       /\ st = "plan" => planned
       /\ heap = <<[id |-> 1, key |-> CHOOSE k \in Keys : k[2] = 1, state |-> st,
                    transcript |-> 1, context |-> 1]>>
       /\ transcripts = <<<<>>>>
       /\ ctxHeap = <<[specification |-> NoSpec,
                       executionPlan |->
                         [present |-> planned,
                          subtasks |-> IF planned THEN <<[title |-> "a"]>> ELSE <<>>],
                       lastExecution |-> NoResult,
                       specifyContext |-> NoSpecifyContext]>>
  /\ sessions = MapSet(EmptyMap, 1, 1)
  /\ workItemIndex = MapSet(EmptyMap, CHOOSE k \in Keys : k[2] = 1, 1)
  /\ nextId = 1
  /\ creates = [p \in CreateCallIds |-> IdleCreate]
  /\ lastReturn = [k \in Keys |-> IF k[2] = 1 THEN 1 ELSE NoSession]
  /\ updates = 0
  /\ deletes = NoDeletes
  /\ azureDevOps = TRUE
  /\ ClientIdle(1)
  /\ retryConfig = [DEFAULT_RETRY_CONFIG EXCEPT !.maxRetries = 1]
  /\ authMode = "pat"
  /\ reqLog = EmptyMap
  /\ sleepLog = EmptyMap
  /\ ExecIdle
  /\ ToolsIdle

NextTools ==
  \/ \E sid \in SessionIdInputs :
       ~ExecRunning /\ ~UpdateRunning /\ PlanBegin(sid, NoApproach)
  \/ \E item \in {i \in Items : i.type = "Bug" /\ ~i.description.present} :
       StageItemRead(item)
  \/ StageReadFail
  \/ PlanFinish({})
  \/ \E sid \in SessionIdInputs, dryRun \in BOOLEAN :
       ~StageRunning /\ ~UpdateRunning /\ ExecuteBegin(1, sid, dryRun, 1)
  \/ \E e \in ExecIds : ExecBatchStart(e)
  \/ \E c \in TaskCallIds : ExecTaskSend(c)
  \/ \E c \in TaskCallIds : ExecTaskRespond(c)
  \/ \E c \in TaskCallIds : ExecTaskWake(c)
  \/ \E e \in ExecIds : ExecBatchSettle(e)
  \/ \E e \in ExecIds : ExecFinish(e)
  \/ \E input \in UpdateInputs :
       ~StageRunning /\ ~ExecRunning /\ UpdateToolBegin(input)
  \/ UpdateToolSend
  \/ UpdateToolRespond
  \/ UpdateToolWake

SpecTools == InitTools /\ [][NextTools]_vars

(***************************************************************************)
(* The routes: session creation and deletion, and one chat request         *)
(***************************************************************************)
\* routes/sessions.ts 5 and routes/chat.ts 7: each of the two route modules
\* constructs its SessionManager; the one of the session routes is taken with
\* and without a client (part_010 211-217 registers the routes with one that
\* has a client)
InitRoutes ==
  /\ StoreEmpty
  /\ azureDevOps \in BOOLEAN
  /\ ClientIdle(0)
  /\ retryConfig = [DEFAULT_RETRY_CONFIG EXCEPT !.maxRetries = 0]
  /\ authMode = "pat"
  /\ reqLog = EmptyMap
  /\ sleepLog = EmptyMap
  /\ ExecIdle
  /\ ToolsIdle

NextRoutes ==
  \/ \E p \in CreateCallIds, key \in Keys : CreateBegin(p, key)
  \/ \E p \in CreateCallIds, ok \in BOOLEAN : CreateLoad(p, ok)
  \/ \E p \in CreateCallIds : CreateRegister(p)
  \/ \E id \in 1..MaxSessions : Delete(id)
  \/ \E id \in 1..MaxSessions, text \in UserTexts : ChatPost(1, id, text)

SpecRoutes == InitRoutes /\ [][NextRoutes]_vars

(***************************************************************************)
(* Chat turns of agents on a stored session                                *)
(***************************************************************************)
InitAgent ==
  /\ StoreWithSession
  /\ heap[1].state = "idle"
  /\ ~ctxHeap[1].executionPlan.present
  /\ azureDevOps = TRUE
  /\ ClientIdle(0)
  /\ retryConfig = [DEFAULT_RETRY_CONFIG EXCEPT !.maxRetries = 0]
  /\ authMode = "pat"
  /\ reqLog = EmptyMap
  /\ sleepLog = EmptyMap
  /\ ExecIdle
  /\ ToolsIdle

NextAgent ==
  \/ \E c \in ChatIds, id \in 1..MaxSessions, text \in UserTexts : AgentChat(c, id, text)
  \/ \E c \in ChatIds, chunk \in ChatChunks : ChatChunk(c, chunk)
  \/ \E c \in ChatIds : ChatDone(c)
  \/ \E c \in ChatIds : ChatFail(c)

SpecAgent == InitAgent /\ [][NextAgent]_vars

(***************************************************************************)
(* Properties of the session store                                         *)
(***************************************************************************)
\* C1: a create call for a key for which an earlier create has completed, with no
\* delete for that key since, returns at once the session id that create returned
\* and adds no session to the store.
C1_CreateIdempotent ==
  [][\A p \in CreateCallIds, k \in Keys :
       (CreateBegin(p, k) /\ lastReturn[k] # NoSession)
         => /\ creates'[p].pc = "done"
            /\ creates'[p].result = lastReturn[k]
            /\ sessions' = sessions
            /\ heap' = heap
            /\ workItemIndex' = workItemIndex]_vars

C1_Witness ==
  \E p, q \in CreateCallIds :
    /\ creates[p].pc = "done" /\ creates[p].via = "new"
    /\ creates[q].pc = "done" /\ creates[q].via = "existing"
    /\ creates[q].key = creates[p].key
    /\ creates[q].result = creates[p].result
    /\ DOMAIN sessions = {creates[p].result}

\* C2: in every reachable state the session map holds at most one session for any
\* (organizationUrl, workItemId) key, also when create calls for one key overlap.
C2_OneSessionPerKey ==
  \A k \in Keys : Cardinality({id \in DOMAIN sessions : StoredSession(id).key = k}) <= 1

(***************************************************************************)
(* Batch fetch against an unstable backend                                 *)
(***************************************************************************)
InitBatch ==
  /\ StoreEmpty
  /\ azureDevOps = TRUE
  /\ ClientIdle(MaxBatchRetries)
  /\ retryConfig = [DEFAULT_RETRY_CONFIG EXCEPT !.maxRetries = MaxBatchRetries]
  /\ authMode = "pat"
  /\ reqLog = EmptyMap
  /\ sleepLog = EmptyMap
  /\ ExecIdle
  /\ ToolsIdle

NextBatch ==
  \/ \E ids \in IdLists : BatchBegin(ids)
  \/ \E c \in BatchCallIds : BatchChunkSend(c)
  \/ \E c \in BatchCallIds : BatchChunkRespond(c)
  \/ \E c \in BatchCallIds : BatchChunkWake(c)

SpecBatch == InitBatch /\ [][NextBatch]_vars

(***************************************************************************)
(* The token cache under concurrent callers                                *)
(***************************************************************************)
InitAuth ==
  /\ StoreEmpty
  /\ azureDevOps = TRUE
  /\ ClientIdle(DefaultMaxRetries)
  /\ retryConfig = DEFAULT_RETRY_CONFIG
  /\ reqLog = EmptyMap
  /\ sleepLog = EmptyMap
  /\ ExecIdle
  /\ ToolsIdle

NextAuth ==
  \/ \E p \in TokenCallIds : AuthBegin(p)
  \/ \E p \in TokenCallIds, expiresIn \in ExpiresIn : AuthExchanged(p, expiresIn)
  \/ \E p \in TokenCallIds : AuthExchangeFailed(p)
  \/ AuthInvalidate
  \/ Tick

SpecAuth == InitAuth /\ [][NextAuth]_vars

(***************************************************************************)
(* Properties of the retry wrapper                                         *)
(***************************************************************************)
Ended(c) == calls[c].pc \in {"ok", "err"}

\* C3: one createWorkItem call creates at most one record in the backend, whatever
\* the responses the retry wrapper goes through.
C3_AtMostOneRecord == \A c \in ClientCallIds : backend[c] <= 1

\* the decimal notation of a number
RECURSIVE Decimal(_)
Decimal(n) == IF n < 10 THEN <<Digits[n + 1]>>
                        ELSE Decimal(n \div 10) \o <<Digits[(n % 10) + 1]>>

\* the text starts with the number n, written in decimal
StartsWithNumber(text, n) ==
  LET d == Decimal(n)
  IN  /\ Len(text) >= Len(d)
      /\ SubSeq(text, 1, Len(d)) = d
      /\ (Len(text) > Len(d) => ~IsDigit(text[Len(d) + 1]))

\* the seconds of a Retry-After header: the number it gives, 60 if it gives none
ProvidedRetryAfter(hdr) ==
  IF hdr.present /\ \E n \in 0..99 : StartsWithNumber(hdr.text, n)
    THEN CHOOSE n \in 0..99 : StartsWithNumber(hdr.text, n)
    ELSE 60

\* every attempt of call c sent a request, and each was answered 429
OnlyRateLimited(c) ==
  /\ calls[c].requests = calls[c].attempt + 1
  /\ Len(reqLog[c]) = calls[c].requests
  /\ \A i \in 1..Len(reqLog[c]) : reqLog[c][i].status = 429

\* C10: a call whose requests are all answered 429 ends after maxRetries+1 requests
\* with RateLimitError carrying the retry-after of the last response, having slept
\* the Retry-After of each response but the last (60 s when absent or unparseable).
C10_PersistentRateLimit ==
  \A c \in ClientCallIds :
    (Ended(c) /\ OnlyRateLimited(c))
      => /\ calls[c].requests = retryConfig.maxRetries + 1
         /\ sleepLog[c] = [i \in 1..retryConfig.maxRetries |->
                             ProvidedRetryAfter(reqLog[c][i].hdr) * 1000]
         /\ calls[c].pc = "err"
         /\ calls[c].err = "RateLimitError"
         /\ calls[c].retryAfter = ProvidedRetryAfter(reqLog[c][Len(reqLog[c])].hdr)

C10_Witness ==
  \E c \in ClientCallIds :
    /\ Ended(c) /\ OnlyRateLimited(c)
    /\ retryConfig.maxRetries = DefaultMaxRetries
    /\ calls[c].err = "RateLimitError"
    /\ ~reqLog[c][1].hdr.present
    /\ reqLog[c][2].hdr = [present |-> TRUE, text |-> <<"x">>]
    /\ reqLog[c][3].hdr = [present |-> TRUE, text |-> <<"2">>]
    /\ reqLog[c][4].hdr = [present |-> TRUE, text |-> <<"1", "5">>]
    /\ sleepLog[c] = <<60000, 60000, 2000>>
    /\ calls[c].retryAfter = 15

(***************************************************************************)
(* Properties of the execute stage                                         *)
(***************************************************************************)
Returned(e) == execs[e].pc = "returned"
RealRun(e) == Returned(e) /\ ~execs[e].dryRun

\* the number of entries of a task list that carry index i
CountIndex(tasks, i) == Cardinality({j \in 1..Len(tasks) : tasks[j].index = i})

\* the plan the store holds for the session of execute e
StoredPlan(e) == ctxHeap[StoredSession(execs[e].sessionId).context].executionPlan

\* C4: after a non-dry-run execute of a plan of N descriptors, createdTasks and
\* failedTasks hold N entries together, N = totalTasks, every index 0..N-1 is in
\* exactly one of the lists and the entry of index i has the title of descriptor i.
C4_ResultPartition ==
  \A e \in ExecIds :
    RealRun(e) =>
      LET r == execs[e].result
          plan == StoredPlan(e).subtasks
          N == Len(plan)
      IN  /\ r.totalTasks = N
          /\ Len(r.createdTasks) + Len(r.failedTasks) = N
          /\ \A i \in 0..(N - 1) :
               CountIndex(r.createdTasks, i) + CountIndex(r.failedTasks, i) = 1
          /\ \A j \in 1..Len(r.createdTasks) :
               /\ r.createdTasks[j].index \in 0..(N - 1)
               /\ r.createdTasks[j].title = plan[r.createdTasks[j].index + 1].title
          /\ \A j \in 1..Len(r.failedTasks) :
               /\ r.failedTasks[j].index \in 0..(N - 1)
               /\ r.failedTasks[j].title = plan[r.failedTasks[j].index + 1].title

C4_Witness ==
  \E e \in ExecIds :
    /\ RealRun(e)
    /\ execs[e].batchSize = 2
    /\ execs[e].subtasks = <<[title |-> "a"], [title |-> "b"], [title |-> "a"]>>
    /\ Len(execs[e].result.createdTasks) = 2
    /\ execs[e].result.failedTasks = <<[index |-> 1, title |-> "b"]>>
    /\ execs[e].result.createdTasks[2].index = 2

\* C5: a dry-run execute of a stored plan of N descriptors returns at once N created
\* entries with indices 0..N-1 and id -1 and no failed entry, sends nothing to the
\* backend and leaves the session and its plan as they are.
C5_DryRun ==
  [][\A e \in ExecIds :
       (/\ execs[e].pc = "idle" /\ execs'[e].pc # "idle"
        /\ execs'[e].dryRun
        /\ execs'[e].sessionId \in DOMAIN sessions
        /\ StoredPlan(e)'.present)
         => LET r == execs'[e].result
                N == Len(StoredPlan(e)'.subtasks)
            IN  /\ execs'[e].pc = "returned"
                /\ Len(r.createdTasks) = N
                /\ \A i \in 1..N : /\ r.createdTasks[i].index = i - 1
                                   /\ r.createdTasks[i].workItemId = -1
                /\ r.failedTasks = <<>>
                /\ calls' = calls /\ backend' = backend
                /\ \A c \in TaskCallIds : calls[c].pc = "none"
                /\ heap' = heap /\ ctxHeap' = ctxHeap /\ sessions' = sessions]_vars

C5_Witness ==
  \E e \in ExecIds :
    /\ Returned(e) /\ execs[e].dryRun
    /\ Len(execs[e].result.createdTasks) = MaxTasks
    /\ StoredSession(execs[e].sessionId).state = "plan"
    /\ \A c \in TaskCallIds : calls[c].pc = "none" /\ backend[c] = 0

\* the chunk the subtask of call c belongs to
ChunkOf(c) == c[2] \div execs[c[1]].batchSize

\* C6: a creation of a chunk is started only when every creation of every earlier
\* chunk has settled, retries included.
C6_ChunksSequential ==
  \A c, d \in TaskCallIds :
    (c[1] = d[1] /\ ChunkOf(c) < ChunkOf(d) /\ calls[d].pc # "none")
      => calls[c].pc \in {"ok", "err"}

C6_Witness ==
  \E e \in ExecIds :
    /\ execs[e].batchSize = 2
    /\ calls[TaskCall(e, 0)].pc = "err"
    /\ calls[TaskCall(e, 1)].pc = "ok"
    /\ calls[TaskCall(e, 2)].pc = "sleep"

\* creations of one chunk are in flight together
C6_WitnessConcurrent ==
  \E e \in ExecIds :
    /\ calls[TaskCall(e, 0)].pc = "sent"
    /\ calls[TaskCall(e, 1)].pc = "sleep"

\* the chunk sizes and sleeps (0) of an execute of N descriptors with batch size b:
\* ceil(N/b) chunks, of size b but for the last, one sleep between two chunks
ExpectedTrace(N, b) ==
  LET n == (N + b - 1) \div b
  IN  [i \in 1..(IF n = 0 THEN 0 ELSE 2 * n - 1) |->
         IF i % 2 = 0 THEN 0
         ELSE IF (i + 1) \div 2 < n THEN b ELSE N - b * (n - 1)]

IsPrefix(s, t) == Len(s) <= Len(t) /\ SubSeq(t, 1, Len(s)) = s

ExamplePlan == [i \in 1..120 |-> [title |-> "a"]]
ExampleBatches == splitBatches(ExamplePlan, 50, 0)

\* C7: a non-dry-run execute of N descriptors with batch size b processes ceil(N/b)
\* consecutive chunks of size b (the last possibly smaller) and sleeps once between
\* two consecutive chunks, never after the last; 120 descriptors by 50 give 50, 50, 20.
C7_ChunksAndSleeps ==
  /\ \A e \in ExecIds :
       LET x == execs[e]
           expected == ExpectedTrace(Len(x.subtasks), x.batchSize)
       IN  /\ IsPrefix(x.trace, expected)
           /\ RealRun(e) => x.trace = expected
  /\ [i \in 1..Len(ExampleBatches) |-> Len(ExampleBatches[i])] = <<50, 50, 20>>

C7_Witness ==
  \E e \in ExecIds :
    /\ RealRun(e)
    /\ Len(execs[e].subtasks) = 3
    /\ execs[e].trace = <<2, 0, 1>>

\* the last-execution record the store holds for the session of execute e
StoredLastExecution(e) == ctxHeap[StoredSession(execs[e].sessionId).context].lastExecution

\* C8: the result of a non-dry-run execute has success = TRUE iff failedTasks is
\* empty; then the session stage is idle and the result is the session's
\* last-execution record; otherwise the stage is what it was before the call and no
\* last-execution record is written.
C8_SuccessUpdatesSession ==
  \A e \in ExecIds :
    RealRun(e) =>
      LET r == execs[e].result
      IN  /\ r.success <=> (r.failedTasks = <<>>)
          /\ r.success => /\ StoredSession(execs[e].sessionId).state = "idle"
                          /\ StoredLastExecution(e) = r
          /\ ~r.success => /\ StoredSession(execs[e].sessionId).state = execs[e].stageBefore
                           /\ StoredLastExecution(e) = NoResult

C8_Witness ==
  \E e \in ExecIds :
    /\ RealRun(e)
    /\ execs[e].result.success
    /\ execs[e].stageBefore = "plan"
    /\ Len(execs[e].result.createdTasks) = 2
    /\ StoredSession(execs[e].sessionId).state = "idle"

C8_WitnessFailure ==
  \E e \in ExecIds :
    /\ RealRun(e)
    /\ ~execs[e].result.success
    /\ execs[e].result.createdTasks # <<>>
    /\ StoredSession(execs[e].sessionId).state = "plan"

\* C9: after a non-dry-run execute has succeeded, the session's working data holds
\* no execution plan any more (a further execute finds no plan).
C9_PlanRetired ==
  \A e \in ExecIds :
    (RealRun(e) /\ execs[e].result.success) => ~StoredPlan(e).present

(***************************************************************************)
(* Properties of the retry wrapper: the shared attempt counter             *)
(***************************************************************************)
IsSuccess(resp) == resp.status >= 200 /\ resp.status <= 299
IsClientError(resp) ==
  resp.status >= 400 /\ resp.status <= 499 /\ resp.status \notin {401, 429}

\* the responses of call c so far that carried the status
Answered(c, status) == {i \in 1..Len(reqLog[c]) : reqLog[c][i].status = status}

\* what is left of the budget of call c: it decreases with every step of the call
Remaining(call) ==
  CASE call.pc = "none" -> 3 * (retryConfig.maxRetries + 2)
    [] call.pc = "auth" -> 3 * (retryConfig.maxRetries - call.attempt) + 3
    [] call.pc = "sent" -> 3 * (retryConfig.maxRetries - call.attempt) + 2
    [] call.pc = "sleep" -> 3 * (retryConfig.maxRetries - call.attempt) + 1
    [] OTHER -> 0

C11_Bounded ==
  \A c \in ClientCallIds :
    LET log == reqLog[c]
    IN  /\ calls[c].requests = Len(log) + (IF calls[c].pc = "sent" THEN 1 ELSE 0)
        /\ calls[c].attempt <= retryConfig.maxRetries
        /\ calls[c].requests <= calls[c].attempt + 1
        /\ calls[c].requests <= retryConfig.maxRetries + 1
        /\ \A i \in 1..Len(log) :
             IsSuccess(log[i]) => i = Len(log) /\ calls[c].pc = "ok"
        /\ calls[c].pc = "ok" =>
             /\ log # <<>> /\ IsSuccess(log[Len(log)])
             /\ calls[c].requests = Cardinality({i \in 1..Len(log) : ~IsSuccess(log[i])}) + 1
        /\ calls[c].pc = "err" =>
             \/ calls[c].attempt = retryConfig.maxRetries
             \/ log # <<>> /\ IsClientError(log[Len(log)])

C11_Progress ==
  \A c \in ClientCallIds :
    calls'[c] # calls[c] => Remaining(calls'[c]) < Remaining(calls[c])

\* C11: whatever mix of 429, 401, 5xx and network failures the backend answers with,
\* a client call sends at most maxRetries+1 requests, all counted by one attempt
\* counter, every step of the call uses up its budget, and the call returns at the
\* first 2xx: k failures followed by a 2xx make exactly k+1 requests.
C11_SharedAttemptCounter == []C11_Bounded /\ [][C11_Progress]_vars

C11_Witness ==
  \E c \in ClientCallIds :
    /\ calls[c].pc = "ok"
    /\ retryConfig.maxRetries = DefaultMaxRetries
    /\ [i \in 1..Len(reqLog[c]) |-> reqLog[c][i].status] = <<0, 401, 500, 200>>

C11_WitnessOneRetry ==
  \E c \in ClientCallIds :
    /\ calls[c].pc = "ok"
    /\ [i \in 1..Len(reqLog[c]) |-> reqLog[c][i].status] = <<500, 200>>
    /\ calls[c].requests = 2

C12_WitnessLater ==
  \E c \in ClientCallIds :
    /\ calls[c].pc = "err"
    /\ calls[c].status = 404
    /\ [i \in 1..Len(reqLog[c]) |-> reqLog[c][i].status] = <<500, 429, 404>>
    /\ retryConfig.maxRetries = DefaultMaxRetries

\* the last response of call c so far was a 401
LastAnswer401(c) == reqLog[c] # <<>> /\ reqLog[c][Len(reqLog[c])].status = 401

C13_Invalidated ==
  \A c \in ClientCallIds :
    /\ invalidations = Cardinality(Answered(c, 401))
    /\ (LastAnswer401(c) /\ calls[c].pc \in {"sleep", "auth"} /\ authMode = "sp")
         => ~cachedToken.present

C13_RetryGetsNewHeader ==
  \A c \in ClientCallIds :
    (LastAnswer401(c) /\ calls[c].pc = "auth" /\ calls'[c].pc = "sent" /\ authMode = "sp")
      => ~cachedToken.present /\ cachedToken'.present

\* C13: every 401 response makes exactly one invalidateToken() call, and it has
\* taken effect when the retried request obtains its auth header: in
\* client-credential mode the retry finds no cached token and exchanges a new one.
C13_InvalidateBeforeRetry == []C13_Invalidated /\ [][C13_RetryGetsNewHeader]_vars

C13_Witness ==
  \E c \in ClientCallIds :
    /\ authMode = "sp"
    /\ calls[c].pc = "sent"
    /\ calls[c].attempt = 2
    /\ [i \in 1..Len(reqLog[c]) |-> reqLog[c][i].status] = <<401, 401>>
    /\ invalidations = 2
    /\ cachedToken.present

\* every attempt of call c sent a request, and each was answered 401
OnlyUnauthorized(c) ==
  /\ calls[c].requests = retryConfig.maxRetries + 1
  /\ Len(reqLog[c]) = calls[c].requests
  /\ \A i \in 1..Len(reqLog[c]) : reqLog[c][i].status = 401

RECURSIVE SumRequests(_)
SumRequests(cs) ==
  IF cs = {} THEN 0
  ELSE LET c == CHOOSE x \in cs : TRUE IN calls[c].requests + SumRequests(cs \ {c})

\* C15: getWorkItemsBatch on n ids makes ceil(n/200) batch requests, the i-th for
\* the i-th slice of at most 200 consecutive ids; with no failure that is the number
\* of HTTP requests; for n = 0 it makes none and returns the empty list.
C15_BatchRequests ==
  batchFetch.pc # "idle" =>
    LET b == batchFetch
        n == Len(b.ids)
        expected == (n + BatchLimit - 1) \div BatchLimit
        started == {c \in BatchCallIds : calls[c].pc # "none"}
    IN  /\ Len(b.requests) = expected
        /\ \A i \in 1..Len(b.requests) :
             /\ Len(b.requests[i]) <= BatchLimit
             /\ b.requests[i] = SubSeq(b.ids, (i - 1) * BatchLimit + 1, Min(i * BatchLimit, n))
        /\ started = {BatchCall(i) : i \in 1..expected}
        /\ n = 0 => b.pc = "returned" /\ b.result = <<>> /\ SumRequests(BatchCallIds) = 0
        /\ (b.pc = "returned" /\ \A c \in started : calls[c].attempt = 0)
             => SumRequests(BatchCallIds) = expected

C15_Witness ==
  /\ batchFetch.pc = "returned"
  /\ Len(batchFetch.ids) = 250
  /\ [i \in 1..Len(batchFetch.requests) |-> Len(batchFetch.requests[i])] = <<200, 50>>
  /\ SumRequests(BatchCallIds) = 2
  /\ Len(batchFetch.result) = 250

C15_WitnessEmpty ==
  /\ batchFetch.pc = "returned"
  /\ batchFetch.ids = <<>>
  /\ batchFetch.result = <<>>

\* C16: the result of getWorkItemsBatch lists the items of the chunks that carried
\* a value list in the order of the chunks, that is in the order of the ids asked
\* for, in whatever order the chunk requests completed.
C16_ChunkOrder ==
  batchFetch.pc = "returned" =>
    LET b == batchFetch
        r == b.result
    IN  /\ \A k \in 1..(Len(r) - 1) : r[k] < r[k + 1]
        /\ {r[k] : k \in 1..Len(r)} =
             UNION {{b.requests[i][j] : j \in 1..Len(b.requests[i])} :
                      i \in {x \in 1..Len(b.requests) : b.settled[x] = "value"}}

C16_Witness ==
  /\ batchFetch.pc = "returned"
  /\ batchFetch.order = <<2, 1>>
  /\ calls[BatchCall(1)].attempt = 1
  /\ calls[BatchCall(2)].attempt = 0
  /\ batchFetch.result = batchFetch.ids
  /\ Len(batchFetch.ids) = 250

(***************************************************************************)
(* Properties of the token cache                                           *)
(***************************************************************************)
TokenReturned(p) ==
  authMode = "sp" /\ tokenCalls[p].pc = "returned"

\* the token call p returned was outside the refresh buffer when it was returned
OutsideBuffer(p) ==
  tokenCalls[p].returnedAt < tokenCalls[p].token.expiresAt - BufferMinutes

\* C17 as stated: every token getAccessToken returns in client-credential mode,
\* from the cache or from an exchange just completed, has more than 5 minutes left.
C17_EveryTokenOutsideBuffer ==
  \A p \in TokenCallIds : TokenReturned(p) => OutsideBuffer(p)

\* C17: every token getAccessToken serves from the cache has more than 5 minutes
\* left when it is returned; a token from an exchange just completed is returned as
\* granted, unexpired, and has more than 5 minutes left iff its lifetime exceeds 5.
C17_CachedTokenOutsideBuffer ==
  \A p \in TokenCallIds :
    TokenReturned(p) =>
      /\ tokenCalls[p].via = "cache" => OutsideBuffer(p)
      /\ tokenCalls[p].via = "exchange" =>
           /\ tokenCalls[p].token.expiresAt - tokenCalls[p].returnedAt \in ExpiresIn
           /\ OutsideBuffer(p) <=>
                tokenCalls[p].token.expiresAt - tokenCalls[p].returnedAt > BufferMinutes

C17_Witness ==
  \E p, q \in TokenCallIds :
    /\ TokenReturned(p) /\ tokenCalls[p].via = "exchange"
    /\ tokenCalls[p].token.expiresAt = BufferMinutes + 2
    /\ TokenReturned(q) /\ tokenCalls[q].via = "cache"
    /\ tokenCalls[q].returnedAt = 1
    /\ now = 2
    /\ cachedToken.present /\ ~isTokenValid(cachedToken)

\* C18 as stated: the first getAccessToken call after an invalidateToken() never
\* returns a cached token.
C18_NextCallExchanges ==
  \A p \in TokenCallIds :
    (authMode = "sp" /\ tokenCalls[p].first) => tokenCalls[p].via # "cache"

\* C18: the first getAccessToken call after an invalidateToken() performs a token
\* exchange, unless an exchange that began before the invalidation has completed in
\* between: then the token of that exchange is in the cache and may be served.
C18_NextCallExchangesUnlessRefilled ==
  \A p \in TokenCallIds :
    (authMode = "sp" /\ tokenCalls[p].first) =>
      /\ ~tokenCalls[p].sawRefill =>
           /\ tokenCalls[p].via # "cache"
           /\ tokenCalls[p].pc \in {"exchanging", "returned", "failed"}
           /\ tokenCalls[p].pc = "returned" => tokenCalls[p].via = "exchange"
      /\ tokenCalls[p].via = "cache" => tokenCalls[p].sawRefill

C18_Witness ==
  \E p, q \in TokenCallIds :
    /\ authMode = "sp"
    /\ tokenCalls[p].pc = "returned" /\ tokenCalls[p].via = "exchange"
    /\ ~tokenCalls[p].stale
    /\ invalidations = 1
    /\ tokenCalls[q].first /\ ~tokenCalls[q].sawRefill
    /\ tokenCalls[q].pc = "returned" /\ tokenCalls[q].via = "exchange"

C18_WitnessRefilled ==
  \E p, q \in TokenCallIds :
    /\ authMode = "sp"
    /\ tokenCalls[p].stale /\ tokenCalls[p].pc = "returned"
    /\ tokenCalls[q].first /\ tokenCalls[q].sawRefill
    /\ tokenCalls[q].via = "cache"

(***************************************************************************)
(* Properties of the specify and plan stages                               *)
(***************************************************************************)
\* the specify call is about to analyse an item whose description is absent or
\* not longer than the threshold, with no answer supplied
ShortAndUnanswered ==
  /\ stageCall.op = "specify"
  /\ stageCall.pc = "related"
  /\ (~stageCall.item.description.present
      \/ stageCall.item.description.length <= DescriptionThreshold)
  /\ (~stageCall.userResponses.present \/ DOMAIN stageCall.userResponses.answers = {})

SpecifyReturns == stageCall.pc = "related" /\ stageCall'.pc = "returned"

\* C19: when the description of the item does not exceed the threshold of 20
\* characters and no user answers are supplied, specify returns needsMoreInfo =
\* true, state gathering and a non-empty list of questions, and the stage of the
\* session after the call is the stage before it, whatever the type of the item;
\* no earlier step of the call writes to the session
C19_ShortDescriptionGathers ==
  [][/\ (ShortAndUnanswered /\ SpecifyReturns) =>
          /\ stageCall'.result.needsMoreInfo
          /\ stageCall'.result.state = "gathering"
          /\ stageCall'.result.clarifyingQuestions # <<>>
          /\ heap'[stageCall.session].state = heap[stageCall.session].state
     /\ (stageCall'.op = "specify" /\ ~SpecifyReturns) => heap' = heap]_vars

\* a description of exactly 20 characters, no answers, a type without questions
\* of its own, a session that was at the plan stage: gathering, still at plan
C19_Witness ==
  /\ stageCall.op = "specify"
  /\ stageCall.pc = "returned"
  /\ stageCall.item.type = "Epic"
  /\ stageCall.item.description = [present |-> TRUE, length |-> DescriptionThreshold]
  /\ stageCall.userResponses = Answers(<<>>)
  /\ stageCall.result.state = "gathering"
  /\ Len(stageCall.result.clarifyingQuestions) = 3
  /\ heap[stageCall.session].state = "plan"

\* the same for a Bug without description and without userResponses: the
\* questions of the type follow the general ones
C19_WitnessBug ==
  /\ stageCall.op = "specify"
  /\ stageCall.pc = "returned"
  /\ stageCall.item.type = "Bug"
  /\ ~stageCall.item.description.present
  /\ stageCall.userResponses = NoAnswers
  /\ stageCall.result.needsMoreInfo
  /\ Len(stageCall.result.clarifyingQuestions) = 5
  /\ heap[stageCall.session].state = "idle"

\* the plan call has returned its plan
PlanReturned == stageCall.op = "plan" /\ stageCall.pc = "returned"

\* the descriptors the returned plan call generated, before the filter
Generated == generatedSubtasks(stageCall.item.type, stageCall.item.title, stageCall.approach)

\* the positions of the generated descriptors whose title no existing child carries
Kept == {i \in 1..Len(Generated) : Generated[i].title \notin stageCall.existingChildren}

\* the sum of the estimates of the generated descriptors at the positions in S
RECURSIVE EffortAt(_)
EffortAt(S) ==
  IF S = {} THEN 0
  ELSE LET i == CHOOSE x \in S : TRUE
       IN  Generated[i].estimatedEffort + EffortAt(S \ {i})

\* C20: whatever the existing children, the subtasks of the plan are the
\* generated descriptors (those of the strategy, then those of the approach)
\* without the ones whose title is, character for character, the title of an
\* existing child; the others keep their order and content, and
\* totalEstimatedEffort is the sum of the estimates of the others only
C20_FilterByExactTitle ==
  PlanReturned =>
    /\ Len(stageCall.plan.subtasks) = Cardinality(Kept)
    /\ \A i \in Kept :
         stageCall.plan.subtasks[Cardinality({k \in Kept : k <= i})] = Generated[i]
    /\ stageCall.plan.totalEstimatedEffort = EffortAt(Kept)
    /\ ctxHeap[heap[stageCall.session].context].executionPlan = stageCall.plan

\* a Feature planned with a tdd hint whose children carry the title of the
\* second descriptor and, in another letter case, the title of the first: only
\* the second is removed, and 5 + 8 + 3 + 3 remain of 32
C20_Witness ==
  /\ PlanReturned
  /\ stageCall.item.type = "Feature"
  /\ Len(Generated) = 5
  /\ stageCall.existingChildren = {OtherCase(Generated[1].title), Generated[2].title}
  /\ Len(stageCall.plan.subtasks) = 4
  /\ stageCall.plan.subtasks[1] = Generated[1]
  /\ stageCall.plan.subtasks[4].title = Title("[TDD] Write tests first", "")
  /\ stageCall.plan.totalEstimatedEffort = 19

\* no child carries a generated title: nothing is removed
C20_WitnessNothingRemoved ==
  /\ PlanReturned
  /\ stageCall.existingChildren # {}
  /\ stageCall.plan.subtasks = Generated
  /\ stageCall.plan.filteredOut = 0

\* the plan the session of the returned plan call holds
PlannedPlan == ctxHeap[heap[stageCall.session].context].executionPlan

\* every dependency index of every descriptor of the plan is a position of the
\* list of the plan, counted from 0
ValidDependencies(plan) ==
  \A i \in 1..Len(plan.subtasks) :
    \A d \in 1..Len(plan.subtasks[i].dependencies) :
      /\ plan.subtasks[i].dependencies[d] >= 0
      /\ plan.subtasks[i].dependencies[d] < Len(plan.subtasks)

\* C21: in every plan the plan stage produces and stores in a session, for every
\* item type, approach hint and set of existing children, each dependency index
\* of each descriptor is a valid index into the subtask list of that plan
C21_DependencyIndicesValid ==
  PlanReturned => ValidDependencies(PlannedPlan)

\* with no descriptor removed by the filter the indices of the plan are valid
C21_ValidWhenNothingRemoved ==
  (PlanReturned /\ Len(PlannedPlan.subtasks) = Len(Generated)) =>
    ValidDependencies(PlannedPlan)

\* the plan call returned the plan of a Bug without children and without hint
BugPlanned ==
  /\ PlanReturned
  /\ stageCall.item.type = "Bug"
  /\ stageCall.existingChildren = {}
  /\ ~stageCall.approach.present

\* C22: for an item of type Bug with no existing children and no approach hint
\* the plan holds exactly 3 descriptors, investigation, fix, verification in
\* this order, whose dependencies are a strict chain: none, [0], [1]
C22_BugPlanChain ==
  BugPlanned =>
    /\ Len(stageCall.plan.subtasks) = 3
    /\ stageCall.plan.subtasks[1].title =
         Title("[Investigation] Root cause analysis for", stageCall.item.title)
    /\ stageCall.plan.subtasks[2].title =
         Title("[Fix] Implement fix for", stageCall.item.title)
    /\ stageCall.plan.subtasks[3].title =
         Title("[Verification] Verify fix for", stageCall.item.title)
    /\ stageCall.plan.subtasks[1].dependencies = <<>>
    /\ stageCall.plan.subtasks[2].dependencies = <<0>>
    /\ stageCall.plan.subtasks[3].dependencies = <<1>>

\* the plan of such a Bug, stored in a session that held no plan before
C22_Witness ==
  /\ BugPlanned
  /\ PlannedPlan = stageCall.plan
  /\ stageCall.plan.totalEstimatedEffort = 7
  /\ stageCall.specification = <<"No specification available">>
  /\ heap[stageCall.session].state = "plan"

\* the hint of the plan call holds the letters t, d, d in a row, in any case
HintHasTdd ==
  /\ stageCall.approach.present
  /\ \E i \in 1..(Len(stageCall.approach.text) - 2) :
       /\ stageCall.approach.text[i] \in {"t", "T"}
       /\ stageCall.approach.text[i + 1] \in {"d", "D"}
       /\ stageCall.approach.text[i + 2] \in {"d", "D"}

TestsFirstTitle == Title("[TDD] Write tests first", "")

\* the number of "write tests first" descriptors of a subtask list
TestsFirstCount(subtasks) ==
  Cardinality({i \in 1..Len(subtasks) : subtasks[i].title = TestsFirstTitle})

\* the plan of the same item and the same existing children without the hint
PlanWithoutHint == generatePlan(stageCall.item, stageCall.existingChildren, NoApproach)

\* C23, as stated: for every item type a plan call whose hint contains "tdd" in
\* any letter case yields a plan that holds exactly one "write tests first"
\* descriptor more than the plan of the same item and children without the hint
C23_TddAddsOne ==
  (PlanReturned /\ HintHasTdd) =>
    /\ TestsFirstCount(stageCall.plan.subtasks)
         = TestsFirstCount(PlanWithoutHint.subtasks) + 1
    /\ SubSeq(stageCall.plan.subtasks, 1, Len(PlanWithoutHint.subtasks))
         = PlanWithoutHint.subtasks

\* C23, amended: the descriptor is one more unless an existing child carries
\* its title, in which case the filter removes it and the plan has none; the
\* descriptors of the strategy are those of the plan without the hint
C23_TddAddsOneUnlessChild ==
  (PlanReturned /\ HintHasTdd) =>
    /\ TestsFirstCount(PlanWithoutHint.subtasks) = 0
    /\ TestsFirstCount(stageCall.plan.subtasks)
         = IF TestsFirstTitle \in stageCall.existingChildren THEN 0 ELSE 1
    /\ SubSeq(stageCall.plan.subtasks, 1, Len(PlanWithoutHint.subtasks))
         = PlanWithoutHint.subtasks

\* the hint TDD in capitals on a Task with a child of another title: the
\* descriptor follows the three of the generic strategy
C23_Witness ==
  /\ PlanReturned
  /\ stageCall.approach.text = <<"T", "D", "D">>
  /\ stageCall.item.type = "Task"
  /\ stageCall.existingChildren = {Title("Done earlier", "")}
  /\ Len(stageCall.plan.subtasks) = 4
  /\ stageCall.plan.subtasks[4].title = TestsFirstTitle

\* a child already carries the title of the descriptor: the hint adds nothing
C23_WitnessFiltered ==
  /\ PlanReturned
  /\ HintHasTdd
  /\ TestsFirstTitle \in stageCall.existingChildren
  /\ stageCall.plan.subtasks = PlanWithoutHint.subtasks

(***************************************************************************)
(* Properties of the two maps of the session store                         *)
(***************************************************************************)
\* C24: after any sequence of create, update and delete operations every entry
\* of the key index refers to a session id that the session map holds; no entry
\* is left pointing to a deleted session
C24_NoOrphanedIndexEntry ==
  \A k \in DOMAIN workItemIndex : workItemIndex[k] \in DOMAIN sessions

\* the same as long as the stored sessions carry the key they were created for
C24_NoOrphanWhileKeysKept ==
  (\A r \in 1..Len(heap) :
      \E p \in CreateCallIds :
        creates[p].via = "new" /\ creates[p].result = heap[r].id
        /\ creates[p].key = heap[r].key)
    => C24_NoOrphanedIndexEntry

\* a create call for key k has failed and the index holds no entry for k
FailedFor(k) ==
  /\ k \notin DOMAIN workItemIndex
  /\ \E p \in CreateCallIds : creates[p].pc = "failed" /\ creates[p].key = k

\* C25: when one of the three context loads of a create for a key without
\* session fails, the create fails and changes neither the session map nor the
\* key index, the failed call registers nothing later either, and a later
\* create for the key starts a load of its own
C25_FailedLoadLeavesNothing ==
  [][/\ \A p \in CreateCallIds :
          /\ CreateLoad(p, FALSE) =>
               /\ creates'[p].pc = "failed"
               /\ creates'[p].result = NoSession
               /\ sessions' = sessions
               /\ workItemIndex' = workItemIndex
               /\ heap' = heap
               /\ nextId' = nextId
          /\ creates[p].pc = "failed" => creates'[p] = creates[p]
     /\ \A q \in CreateCallIds, k \in Keys :
          (CreateBegin(q, k) /\ FailedFor(k) /\ azureDevOps) =>
             /\ creates'[q].pc = "loading"
             /\ creates'[q].loads = 0]_vars

\* a create failed at a load, a later create for the same key built the only
\* session of the store
C25_Witness ==
  \E p, q \in CreateCallIds :
    /\ p < q
    /\ creates[p].pc = "failed" /\ creates[p].key = creates[q].key
    /\ creates[q].pc = "done" /\ creates[q].via = "new"
    /\ DOMAIN sessions = {creates[q].result}
    /\ workItemIndex[creates[q].key] = creates[q].result
    /\ nextId = 1

(***************************************************************************)
(* Properties of the preconditions of the tools                            *)
(***************************************************************************)
\* the step starts a plan call with a session id the store does not hold
PlanUnknownSession ==
  /\ stageCall.pc = "idle"
  /\ stageCall'.op = "plan"
  /\ stageCall'.sessionId \notin DOMAIN sessions

\* the step starts execute e with a session id the store does not hold
ExecuteUnknownSession(e) ==
  /\ execs[e].pc = "idle"
  /\ execs'[e].pc # "idle"
  /\ execs'[e].sessionId \notin DOMAIN sessions

\* the step starts execute e on a session that holds no plan
ExecuteWithoutPlan(e) ==
  /\ execs[e].pc = "idle"
  /\ execs'[e].pc # "idle"
  /\ execs'[e].sessionId \in DOMAIN sessions
  /\ ~ctxHeap[StoredSession(execs'[e].sessionId).context].executionPlan.present

\* the step starts the update tool with no field to update
UpdateWithoutFields ==
  /\ updateTool.pc = "idle"
  /\ updateTool'.pc # "idle"
  /\ ~updateTool'.input.title
  /\ ~updateTool'.input.tags
  /\ updateTool'.input.additionalFields # "one"

\* the step sends nothing to the backend, starts no request and leaves the
\* sessions as they are
NothingDone ==
  /\ reqLog' = reqLog
  /\ backend' = backend
  /\ \A c \in CallIds : calls'[c].pc = "none" \/ calls'[c] = calls[c]
  /\ sessions' = sessions
  /\ workItemIndex' = workItemIndex
  /\ heap' = heap
  /\ ctxHeap' = ctxHeap

\* C26: plan or execute with an unknown session id, execute on a session
\* without plan and the update tool without fields fail at their first step,
\* with no backend call and no change to a session, and a failed call does
\* nothing afterwards
C26_LogicalErrorsFailAtOnce ==
  [][/\ PlanUnknownSession => (stageCall'.pc = "thrown" /\ NothingDone)
     /\ \A e \in ExecIds :
          (ExecuteUnknownSession(e) \/ ExecuteWithoutPlan(e)) =>
             (execs'[e].pc = "thrown" /\ NothingDone)
     /\ UpdateWithoutFields => (updateTool'.pc = "thrown" /\ NothingDone)
     /\ stageCall.pc = "thrown" => stageCall' = stageCall
     /\ \A e \in ExecIds : execs[e].pc = "thrown" => execs'[e] = execs[e]
     /\ updateTool.pc = "thrown" => updateTool' = updateTool]_vars

\* the three tools have failed on a session without plan: no request was made
C26_Witness ==
  /\ stageCall.op = "plan" /\ stageCall.pc = "thrown" /\ stageCall.sessionId = 99
  /\ \E e \in ExecIds :
       /\ execs[e].pc = "thrown"
       /\ execs[e].error = "No execution plan"
  /\ updateTool.pc = "thrown"
  /\ updateTool.error = "No fields provided for update"
  /\ updateTool.input.additionalFields = "empty"
  /\ \A c \in CallIds : calls[c].pc = "none"
  /\ reqLog = EmptyMap

\* execute with an unknown session id after a plan call that stored a plan
C26_WitnessUnknownExecute ==
  /\ PlanReturned
  /\ \E e \in ExecIds :
       /\ execs[e].pc = "thrown"
       /\ execs[e].error = "Session not found"
  /\ reqLog = EmptyMap

(***************************************************************************)
(* Properties of a running execute                                         *)
(***************************************************************************)
\* execute e has found its session and its plan and is not a dry run
Running(e) == execs[e].pc \notin {"idle", "returned", "thrown"}

\* the creation of descriptor i of execute e has been attempted and has ended
Attempted(e, i) == calls[TaskCall(e, i)].pc \in {"ok", "err"}

\* what is left of the creations of the descriptors from index i on
RECURSIVE CreationsLeft(_, _)
CreationsLeft(e, i) ==
  IF i >= Len(execs[e].subtasks) THEN 0
  ELSE Remaining(calls[TaskCall(e, i)]) + CreationsLeft(e, i + 1)

\* what is left of the loop over the batches
LoopLeft(e) ==
  LET x == execs[e]
      left == Len(splitBatches(x.subtasks, x.batchSize, 0)) - x.batchIndex
  IN  CASE x.pc = "batch" -> 4 * left + 3
        [] x.pc = "settling" -> 4 * left + 2
        [] x.pc = "sleep" -> 4 * left + 1
        [] x.pc = "finish" -> 1
        [] OTHER -> 0

\* what is left of execute e: it decreases with every step of the execute
ExecLeft(e) == CreationsLeft(e, 0) + LoopLeft(e)

\* C27: a non-dry-run execute that has found its session and plan does not
\* throw, whatever the outcomes of the creations; every step uses up what is
\* left of it and it returns after the creation of every descriptor has been
\* attempted, a failed creation stopping neither the others of its chunk nor
\* the later chunks, and no creation is started a second time
C27_ExecuteNeverThrows ==
  /\ [](\A e \in ExecIds :
          /\ execs[e].pc = "thrown" =>
               execs[e].error \in {"Session not found", "No execution plan"}
          /\ RealRun(e) =>
               /\ execs[e].result.present
               /\ \A i \in 0..(Len(execs[e].subtasks) - 1) : Attempted(e, i)
               /\ \A c \in TaskCallIds :
                    (c[1] = e /\ c[2] >= Len(execs[e].subtasks)) => calls[c].pc = "none")
  /\ [][/\ \A e \in ExecIds :
             Running(e) => (execs'[e].pc # "thrown" /\ ExecLeft(e)' < ExecLeft(e))
        /\ \A c \in TaskCallIds :
             /\ calls[c].pc \in {"ok", "err"} => calls'[c].pc = calls[c].pc
             /\ (calls[c].pc = "none" /\ calls'[c].pc # "none") =>
                  (calls'[c] = NewCall("POST") /\ Running(c[1]))]_vars

\* three descriptors in chunks of two: the first creation failed, its sibling
\* and the creation of the next chunk were attempted and succeeded, and the
\* execute returned its result
C27_Witness ==
  \E e \in ExecIds :
    /\ RealRun(e)
    /\ Len(execs[e].subtasks) = 3
    /\ execs[e].batchSize = 2
    /\ calls[TaskCall(e, 0)].pc = "err"
    /\ calls[TaskCall(e, 1)].pc = "ok"
    /\ calls[TaskCall(e, 2)].pc = "ok"
    /\ ~execs[e].result.success
    /\ Len(execs[e].result.failedTasks) = 1
    /\ Len(execs[e].result.createdTasks) = 2

\* every creation failed: the execute still returns
C27_WitnessAllFailed ==
  \E e \in ExecIds :
    /\ RealRun(e)
    /\ Len(execs[e].subtasks) = 3
    /\ execs[e].batchSize = 1
    /\ \A i \in 0..2 : calls[TaskCall(e, i)].pc = "err"
    /\ execs[e].result.createdTasks = <<>>

(***************************************************************************)
(* Properties of delete                                                    *)
(***************************************************************************)
\* the step is a delete() call
DeleteCalled == deletes'.count = deletes.count + 1

\* the step is the start of create call p
CreateCalled(p) == creates[p].pc = "idle" /\ creates'[p].pc # "idle"

\* the step is the registration of the session create call p has built
Registered(p) == creates[p].pc = "loading" /\ creates'[p].pc = "done"

\* the ids of the session objects built so far
BuiltIds == {heap[r].id : r \in 1..Len(heap)}

\* what get(id) and getByWorkItem(key) return after the step
getAfter(id) == IF id \in DOMAIN sessions' THEN sessions'[id] ELSE undefined

getByWorkItemAfter(key) ==
  LET sessionId == MapGet(workItemIndex', key, NoSession)
  IN  IF sessionId = NoSession THEN undefined ELSE getAfter(sessionId)

\* C30: after delete(id) of a stored session, get(id) and getByWorkItem for the
\* key of that session return undefined; a create for a key for which no create
\* has returned since the delete does not return an existing session, and the
\* session it registers has an id no earlier session had, stage idle and an
\* empty transcript; delete of an id the store does not hold changes nothing
C30_DeleteFreesKey ==
  /\ [][DeleteCalled =>
          LET id == deletes'.id
          IN  IF id \in DOMAIN sessions
                THEN /\ getAfter(id) = undefined
                     /\ getByWorkItemAfter(StoredSession(id).key) = undefined
                     /\ \A k \in Keys :
                          MapGet(workItemIndex, k, NoSession) = id
                            => getByWorkItemAfter(k) = undefined
                ELSE UNCHANGED <<sessions, workItemIndex, heap, ctxHeap, transcripts>>]_vars
  /\ [][\A p \in CreateCallIds :
          /\ (CreateCalled(p) /\ lastReturn[creates'[p].key] = NoSession)
                => creates'[p].via # "existing"
          /\ Registered(p) =>
                LET id == creates'[p].result
                IN  /\ id \notin BuiltIds
                    /\ getAfter(id) # undefined
                    /\ heap'[getAfter(id)].state = "idle"
                    /\ transcripts'[heap'[getAfter(id)].transcript] = <<>>
                    /\ getByWorkItemAfter(creates[p].key) = getAfter(id)]_vars

\* a stored session was deleted and a create for its key, called after the
\* delete, has built another session
C30_Witness ==
  \E p, q \in CreateCallIds :
    /\ p < q
    /\ creates[p].pc = "done" /\ creates[p].via = "new"
    /\ creates[q].pc = "done" /\ creates[q].via = "new"
    /\ creates[p].key = creates[q].key
    /\ creates[p].result # creates[q].result
    /\ deletes.id = creates[p].result
    /\ DOMAIN sessions = {creates[q].result}
    /\ nextId = 2

\* the latest delete was given an id the store did not hold
C30_WitnessUnknown == deletes.count = 1 /\ deletes.id \notin BuiltIds /\ DOMAIN sessions # {}

(***************************************************************************)
(* Properties of the routes and of a chat turn                             *)
(***************************************************************************)
\* the step is chat request c
ChatRequested(c) == chats[c].pc = "idle" /\ chats'[c].pc # "idle"

RECURSIVE Concatenated(_)
Concatenated(chunks) ==
  IF chunks = <<>> THEN <<>>
  ELSE (IF Head(chunks).type = "text" THEN Head(chunks).text ELSE <<>>)
         \o Concatenated(Tail(chunks))

\* the transcript of the session chat turn c works on
TranscriptOf(c) == transcripts[heap[chats[c].session].transcript]

\* the positions of the messages of turn c in the transcript of its session
MessagesOf(c) == {i \in 1..Len(TranscriptOf(c)) : TranscriptOf(c)[i].turn = c}

\* C29: the transcript is append-only: no step removes or reorders the entries
\* a transcript holds; a chat turn that has run to the end of the model stream
\* has appended exactly two messages, the user message with the given text and
\* after it one assistant message with the concatenation of the streamed texts;
\* a turn that has not reached the end has appended the user message only
C29_TranscriptAppendOnly ==
  /\ [](\A c \in ChatIds :
         /\ chats[c].pc = "done" =>
              /\ Cardinality(MessagesOf(c)) = 2
              /\ \E i, j \in MessagesOf(c) :
                   /\ i < j
                   /\ TranscriptOf(c)[i] = Message("user", chats[c].userMessage, c)
                   /\ TranscriptOf(c)[j] =
                        Message("assistant", Concatenated(chats[c].streamed), c)
         /\ chats[c].pc \in {"streaming", "failed"} =>
              \E i \in MessagesOf(c) :
                /\ MessagesOf(c) = {i}
                /\ TranscriptOf(c)[i] = Message("user", chats[c].userMessage, c))
  /\ [][\A t \in 1..Len(transcripts) :
          /\ Len(transcripts'[t]) >= Len(transcripts[t])
          /\ SubSeq(transcripts'[t], 1, Len(transcripts[t])) = transcripts[t]]_vars

\* a second chat turn has run to the end after the first, with two texts streamed
C29_Witness ==
  /\ chats[1].pc = "done" /\ chats[2].pc = "done"
  /\ chats[2].session = chats[1].session
  /\ Len(TranscriptOf(2)) = 4
  /\ MessagesOf(2) = {3, 4}
  /\ chats[2].streamed = <<[type |-> "text", text |-> <<"a">>],
                           [type |-> "text", text |-> <<"b", "c">>]>>
  /\ TranscriptOf(2)[4].content = <<"a", "b", "c">>

\* two chat turns on one session have run to the end interleaved
C29_WitnessInterleaved ==
  /\ chats[1].pc = "done" /\ chats[2].pc = "done"
  /\ MessagesOf(1) = {1, 4}
  /\ MessagesOf(2) = {2, 3}

(***************************************************************************)
(* Properties of the backoff schedule                                      *)
(***************************************************************************)
\* every attempt of call c so far has sent its request: none failed at the
\* token exchange, so that sleep i follows response i
AllSent(c) ==
  calls[c].requests =
    calls[c].attempt + (IF calls[c].pc \in {"none", "auth"} THEN 0 ELSE 1)

\* response i of call c is a 5xx or a network failure
IsTransient(c, i) == reqLog[c][i].status >= 500 \/ reqLog[c][i].status = 0

\* the number of 5xx and network failures among the responses of c before i
EarlierTransient(c, i) == Cardinality({k \in 1..(i - 1) : IsTransient(c, k)})

\* min(initialDelay * backoffMultiplier^j, maxDelay)
Backoff(j) ==
  Min(retryConfig.initialDelayMs * Pow(retryConfig.backoffMultiplier, j),
      retryConfig.maxDelayMs)

\* C31: the delay slept after a 5xx or network failure is the backoff of the
\* number of earlier 5xx and network retries of the call; 429 and 401 retries
\* in between do not use up the schedule
C31_BackoffIgnoresRateLimit ==
  \A c \in ClientCallIds :
    \A i \in 1..Len(sleepLog[c]) :
      (AllSent(c) /\ IsTransient(c, i)) => sleepLog[c][i] = Backoff(EarlierTransient(c, i))

\* the delay is the backoff of the number of all earlier retries of the call
C31_BackoffByAttempt ==
  \A c \in ClientCallIds :
    \A i \in 1..Len(sleepLog[c]) :
      (AllSent(c) /\ IsTransient(c, i)) => sleepLog[c][i] = Backoff(i - 1)

\* the sleeps of call c are the backoff delays of the attempts 0, 1, 2, ...
BackoffSchedule(c) ==
  \A i \in 1..Len(sleepLog[c]) :
    /\ sleepLog[c][i] = Backoff(i - 1)
    /\ sleepLog[c][i] <= retryConfig.maxDelayMs

\* with the defaults a call answered only by 5xx sleeps 1000, 2000 and 4000 ms
\* and fails on the fourth response
DefaultSchedule(c) ==
  (/\ retryConfig = DEFAULT_RETRY_CONFIG
   /\ Ended(c)
   /\ \A i \in 1..Len(reqLog[c]) : reqLog[c][i].status = 500)
    => /\ sleepLog[c] = <<1000, 2000, 4000>>
       /\ Len(reqLog[c]) = 4
       /\ calls[c].pc = "err" /\ calls[c].status = 500

\* C32: for every attempt number and every retry configuration the backoff
\* delay is min(initialDelay * backoffMultiplier^a, maxDelay), it never exceeds
\* maxDelay and is non-decreasing in a; the default schedule is 1000, 2000, 4000
C32_BackoffMonotone ==
  \A c \in ClientCallIds :
    /\ BackoffSchedule(c)
    /\ \A i \in 2..Len(sleepLog[c]) : sleepLog[c][i] >= sleepLog[c][i - 1]
    /\ DefaultSchedule(c)

\* C32, amended: the same, the delay being non-decreasing in a under the
\* configurations whose backoffMultiplier is at least 1
C32_BackoffMonotoneFromOne ==
  \A c \in ClientCallIds :
    /\ BackoffSchedule(c)
    /\ retryConfig.backoffMultiplier >= 1 =>
         \A i \in 2..Len(sleepLog[c]) : sleepLog[c][i] >= sleepLog[c][i - 1]
    /\ DefaultSchedule(c)

\* the default schedule has run to the failure on the fourth 5xx
C32_Witness ==
  \E c \in ClientCallIds :
    /\ retryConfig = DEFAULT_RETRY_CONFIG
    /\ calls[c].pc = "err"
    /\ [i \in 1..Len(reqLog[c]) |-> reqLog[c][i].status] = <<500, 500, 500, 500>>
    /\ sleepLog[c] = <<1000, 2000, 4000>>

\* a schedule that reached the cap
C32_WitnessCapped ==
  \E c \in ClientCallIds :
    /\ retryConfig.maxDelayMs = 3000 /\ retryConfig.backoffMultiplier = 2
    /\ sleepLog[c] = <<1000, 2000, 3000>>

(***************************************************************************)
(* Properties of the completeness decision of specify                      *)
(***************************************************************************)
\* the description of the item of the call is longer than the threshold
LongDescription ==
  /\ stageCall.item.description.present
  /\ stageCall.item.description.length > DescriptionThreshold

\* the caller supplied at least one answer
SomeAnswer ==
  stageCall.userResponses.present /\ DOMAIN stageCall.userResponses.answers # {}

\* the step is the return of a specify call with state complete
ReturnsComplete ==
  /\ stageCall'.result.state = "complete"
  /\ ~stageCall'.result.needsMoreInfo

\* the step is the return of a specify call with state gathering
ReturnsGathering ==
  /\ stageCall'.result.state = "gathering"
  /\ stageCall'.result.needsMoreInfo

\* C33: specify returns state complete exactly when the description is longer
\* than the threshold or the caller supplied at least one answer, whatever the
\* type of the item, and state gathering in every other case
C33_CompleteIffDescribedOrAnswered ==
  [][(stageCall.op = "specify" /\ SpecifyReturns) =>
       IF LongDescription \/ SomeAnswer THEN ReturnsComplete ELSE ReturnsGathering]_vars

\* what holds: complete exactly when an answer was supplied, or the description
\* is long and the type of the item has no questions of its own
C33_CompleteIffNoQuestionLeft ==
  [][(stageCall.op = "specify" /\ SpecifyReturns) =>
       IF SomeAnswer
          \/ (LongDescription
              /\ stageCall.item.type \notin {"User Story", "Feature", "Bug"})
         THEN ReturnsComplete ELSE ReturnsGathering]_vars

(***************************************************************************)
(* Properties of a failed read during specify or plan                      *)
(***************************************************************************)
\* the stage and the working data of the session object ref
StageData(ref) == [state |-> heap[ref].state, context |-> ctxHeap[heap[ref].context]]

\* the step is the failure of a backend read of the stage call
ReadFails ==
  stageCall.pc \in {"item", "related", "children"} /\ stageCall'.pc = "thrown"

\* the stage call is suspended at a backend read
Reading == stageCall.pc \in {"item", "related", "children"}

\* C34: when a backend read fails during a specify or a plan call the call
\* throws, and the stage and the working data of the session are what they were
\* before the call: no step of the call up to a read, and not the failure
\* itself, writes to the session
C34_FailedReadLeavesSession ==
  /\ [][((Reading \/ Reading') /\ stageCall'.pc # "returned") =>
          (\A ref \in 1..Len(heap) : StageData(ref)' = StageData(ref))]_vars
  /\ [][ReadFails => (heap' = heap /\ ctxHeap' = ctxHeap /\ sessions' = sessions)]_vars
  /\ [][stageCall.pc = "thrown" => stageCall' = stageCall]_vars

\* a plan call failed at the read of the children, on a session at the specify
\* stage that holds a specification
C34_Witness ==
  /\ stageCall.op = "plan"
  /\ stageCall.pc = "thrown"
  /\ stageCall.sessionId \in DOMAIN sessions
  /\ stageCall.item.type = "Bug"
  /\ heap[stageCall.session].state = "specify"
  /\ ctxHeap[heap[stageCall.session].context].specification # NoSpec
  /\ ~ctxHeap[heap[stageCall.session].context].executionPlan.present

\* a specify call failed at the read of the children and related items
C34_WitnessSpecify ==
  /\ stageCall.op = "specify"
  /\ stageCall.pc = "thrown"
  /\ stageCall.item.type = "Task"
  /\ stageCall.userResponses # NoAnswers
  /\ heap[stageCall.session].state = "plan"
  /\ ~ctxHeap[heap[stageCall.session].context].specifyContext.present

(***************************************************************************)
(* Properties of plan on a session without specification                   *)
(***************************************************************************)
\* the step starts a plan call on a session of the store that holds no
\* specification
PlanWithoutSpecification ==
  /\ stageCall.pc = "idle"
  /\ stageCall'.op = "plan"
  /\ stageCall'.sessionId \in DOMAIN sessions
  /\ ctxHeap[StoredSession(stageCall'.sessionId).context].specification = NoSpec

\* the step is the end of a plan call that started without specification
PlanEndsWithoutSpecification ==
  /\ stageCall.op = "plan"
  /\ stageCall.pc = "children"
  /\ stageCall'.pc = "returned"
  /\ stageCall.specification = <<"No specification available">>

\* C35: a plan call on a session of the store that holds no specification does
\* not fail for that: it goes on with the placeholder specification, and, its
\* reads done, stores the plan it returns in the working data of the session
\* and sets the stage to plan, whatever the stage was
C35_PlanWithoutSpecification ==
  [][/\ PlanWithoutSpecification =>
          /\ stageCall'.pc = "item"
          /\ stageCall'.specification = <<"No specification available">>
     /\ PlanEndsWithoutSpecification =>
          /\ stageCall'.plan.present
          /\ ctxHeap'[heap'[stageCall.session].context].executionPlan = stageCall'.plan
          /\ ctxHeap'[heap'[stageCall.session].context].specification = NoSpec
          /\ heap'[stageCall.session].state = "plan"
     /\ (stageCall.op = "plan" /\ stageCall'.pc = "thrown") => ReadFails]_vars

\* a plan call on a session that was idle and held neither specification nor
\* plan has returned
C35_Witness ==
  /\ PlanReturned
  /\ stageCall.specification = <<"No specification available">>
  /\ stageCall.item.type = "Feature"
  /\ Len(stageCall.plan.subtasks) > 0
  /\ heap[stageCall.session].state = "plan"
  /\ ctxHeap[heap[stageCall.session].context].specification = NoSpec
  /\ ctxHeap[1].specification = NoSpec /\ ~ctxHeap[1].executionPlan.present

(***************************************************************************)
(* Properties of the writes of a stage call under store updates            *)
(***************************************************************************)
\* the step is the end of a plan call
PlanFinishes ==
  stageCall.op = "plan" /\ stageCall.pc = "children" /\ stageCall'.pc = "returned"

\* the step is the end of a specify call with state complete
SpecifyCompletes ==
  /\ stageCall.op = "specify" /\ stageCall.pc = "related" /\ stageCall'.pc = "returned"
  /\ stageCall'.result.state = "complete"

\* the session object get(id) returns after the step, for the id of the call
StoredAfter == heap'[sessions'[stageCall.sessionId]]

\* after the step get(id) observes what the stage call wrote
WritesObserved ==
  /\ PlanFinishes =>
       /\ StoredAfter.state = "plan"
       /\ ctxHeap'[StoredAfter.context].executionPlan = stageCall'.plan
  /\ SpecifyCompletes =>
       /\ StoredAfter.state = "specify"
       /\ ctxHeap'[StoredAfter.context].specification = stageCall'.result.specification

\* C36: when a plan call or a completed specify call finishes, get(id) observes
\* the stage and the working data the call wrote, also when update(id, changes)
\* ran on the session while the call was suspended at a backend read
C36_LastWriteWins == [][WritesObserved]_vars

\* the same when the store still holds the session object the call obtained
C36_ObservedWithoutUpdate ==
  [][(/\ stageCall.sessionId \in DOMAIN sessions
      /\ sessions[stageCall.sessionId] = stageCall.session) => WritesObserved]_vars

(***************************************************************************)
(* Properties of the stage under overlapping tool calls                    *)
(***************************************************************************)
\* C37: across specify, plan and execute calls on a session, in sequence or
\* overlapping, the stage of the session is always idle, specify or plan, and
\* no step of a call sets it to execute
C37_StageNeverExecute ==
  /\ [](\A ref \in DOMAIN heap : heap[ref].state \in {"idle", "specify", "plan"})
  /\ [][\A ref \in DOMAIN heap : heap'[ref].state # "execute"]_vars

\* a non-dry-run execute has ended with failures on a session whose stage is plan
C37_Witness ==
  \E e \in ExecIds :
    /\ execs[e].pc = "returned" /\ ~execs[e].dryRun
    /\ execs[e].result.failedTasks # <<>>
    /\ heap[execs[e].session].state = "plan"

\* a non-dry-run execute is in progress while the stage is plan
C37_WitnessInProgress ==
  \E e \in ExecIds :
    /\ execs[e].pc = "settling"
    /\ heap[execs[e].session].state = "plan"

\* the step sends a creation request of execute call e
SendsCreation(e) ==
  \E c \in TaskCallIds : c[1] = e /\ calls'[c].requests > calls[c].requests

\* the plan of the stored session
SessionPlan == ctxHeap[StoredSession(1).context].executionPlan

\* C38: execute sends a creation request only when it is not a dry run and the
\* session holds a plan, and a session gets its plan only at the successful end
\* of a plan call: on a session where only specify ran or every plan call
\* failed, no execute call sends a creation request
C38_CreatesOnlyAfterPlan ==
  /\ [][\A e \in ExecIds :
          SendsCreation(e) => (~execs[e].dryRun /\ SessionPlan.present)]_vars
  /\ [][(SessionPlan'.present /\ ~SessionPlan.present) => PlanFinishes]_vars
  /\ [](~SessionPlan.present =>
          \A e \in ExecIds : execs[e].pc \in {"idle", "thrown"})
  /\ [](\A c \in TaskCallIds :
          backend[c] > 0 => (~execs[c[1]].dryRun /\ SessionPlan.present))

\* a creation request is in flight on a session that a plan call planned
C38_Witness ==
  /\ SessionPlan.present
  /\ \E c \in TaskCallIds : calls[c].pc = "sent"

\* execute has thrown on a session where specify completed and no plan is stored
C38_WitnessSpecifyOnly ==
  /\ ~SessionPlan.present
  /\ StoredSession(1).state = "specify"
  /\ \E e \in ExecIds : execs[e].pc = "thrown" /\ execs[e].error = "No execution plan"

\* execute has thrown after a plan call that failed
C38_WitnessPlanFailed ==
  /\ ~SessionPlan.present
  /\ stageCall.op = "plan" /\ stageCall.pc = "thrown"
  /\ \E e \in ExecIds : execs[e].pc = "thrown" /\ execs[e].error = "No execution plan"

(***************************************************************************)
(* Properties of overlapping execute calls                                 *)
(***************************************************************************)
\* both execute calls create the records of the same plan of the same session
SamePlanTwice ==
  /\ \A e \in ExecIds : execs[e].pc \notin {"idle", "thrown"} /\ ~execs[e].dryRun
  /\ execs[1].session = execs[2].session
  /\ execs[1].subtasks = execs[2].subtasks

\* C39: when two non-dry-run execute calls on the same session overlap, each
\* descriptor of the stored plan is created at most once in total
C39_CreatedAtMostOnce ==
  SamePlanTwice =>
    \A i \in 0..(MaxTasks - 1) :
      (\A e \in ExecIds : backend[TaskCall(e, i)] <= 1)
        => backend[TaskCall(1, i)] + backend[TaskCall(2, i)] <= 1

\* the creations are those of the two calls: a descriptor has no more records
\* than the calls sent requests for it
C39_CreatedPerRequest ==
  [][\A c \in TaskCallIds :
       backend'[c] > backend[c] => (calls[c].pc = "sent" /\ backend'[c] = backend[c] + 1)]_vars

(***************************************************************************)
(* Properties of the dependency indices after the duplicate filter         *)
(***************************************************************************)
\* the filter of the returned plan call removed a generated descriptor
FilterRemoved == PlanReturned /\ Kept # 1..Len(Generated)

\* index dep of the plan designates the descriptor it designated in the
\* generated list, and not the descriptor at position i of the plan
SameDescriptor(plan, i, dep) ==
  /\ dep + 1 \in Kept
  /\ dep + 1 <= Len(plan.subtasks)
  /\ plan.subtasks[dep + 1].title = Generated[dep + 1].title
  /\ dep + 1 # i

\* C40: when the duplicate filter removes descriptors from a generated plan,
\* every dependency index of every remaining descriptor still designates the
\* descriptor (by title) it designated in the unfiltered list, never the
\* descriptor itself and never a removed descriptor
C40_DependenciesFollowDescriptors ==
  FilterRemoved =>
    \A i \in 1..Len(PlannedPlan.subtasks) :
      \A d \in 1..Len(PlannedPlan.subtasks[i].dependencies) :
        SameDescriptor(PlannedPlan, i, PlannedPlan.subtasks[i].dependencies[d])

\* the filter copies the indices: a remaining descriptor has the dependency
\* list it was generated with
C40_DependenciesCopied ==
  PlanReturned =>
    \A i \in Kept :
      PlannedPlan.subtasks[Cardinality({k \in Kept : k <= i})].dependencies
        = Generated[i].dependencies

====
